---- MODULE Spec2Model ----
(***************************************************************************)
(* The eclipse binary catalog of saros-unix: the builder (db/build_db.py)  *)
(* that turns per-series record files into the three tables, and the       *)
(* reader (export_csv.py) that decodes them.                               *)
(*                                                                         *)
(* Conventions of the model:                                               *)
(*   - a Python value that may be None is a sequence of length 0 (None)    *)
(*     or 1 (the value);                                                   *)
(*   - a Python float with decimals is an integer number of hundredths     *)
(*     (latitude_deg 12.3 is 1230, pen_duration_m 55.6 is 5560);           *)
(*   - a Python str that the code parses is a sequence of one-character    *)
(*     strings; a str that is only compared or looked up is a TLA+ string; *)
(*   - a bytes object is a sequence of integers 0..255;                    *)
(*   - a call that may raise returns [ok |-> FALSE, err |-> <exception>].  *)
(***************************************************************************)
EXTENDS Integers, Sequences, FiniteSets, TLC

\* ------------------------------------------------------------------------
\* Bounds of the model
\* ------------------------------------------------------------------------

\* Total number of record lines over all series files of one input.
MaxTotal == 3

\* ------------------------------------------------------------------------
\* Program constants
\* ------------------------------------------------------------------------

MAX_ECLIPSES_PER_SAROS == 96

\* range(1, 181): the saros numbers that get a slot.
LAST_SAROS == 180

\* 0xFFFF, the "n/a" value of a duration field.
SENTINEL == 65535

\* 0xFFFE, the clamp of _minutes_to_seconds.
CLAMP_MAX == 65534

INFO_RECORD_SIZE == 10

TIMES_RECORD_SIZE == 8

None == <<>>

Some(v) == <<v>>

\* ------------------------------------------------------------------------
\* Type maps
\* ------------------------------------------------------------------------

SOLAR_ECL_TYPE_MAP ==
    ("A" :> 0) @@ ("A+" :> 1) @@ ("A-" :> 2) @@ ("Am" :> 3) @@ ("An" :> 4) @@ ("As" :> 5) @@
    ("H" :> 6) @@ ("H2" :> 7) @@ ("H3" :> 8) @@ ("Hm" :> 9) @@
    ("P" :> 10) @@ ("Pb" :> 11) @@ ("Pe" :> 12) @@
    ("T" :> 13) @@ ("T+" :> 14) @@ ("T-" :> 15) @@ ("Tm" :> 16) @@ ("Tn" :> 17) @@ ("Ts" :> 18)

LUNAR_ECL_TYPE_MAP ==
    ("N" :> 0) @@ ("Nb" :> 1) @@ ("Ne" :> 2) @@ ("Nx" :> 3) @@
    ("P" :> 4) @@ ("Pb" :> 5) @@ ("Pe" :> 6) @@
    ("T" :> 7) @@ ("T+" :> 8) @@ ("T-" :> 9) @@ ("Tm" :> 10) @@ ("Tn" :> 11) @@ ("Ts" :> 12)

\* The reader's tables; Python's NAMES[i] is NAMES[i + 1] here.
SOLAR_TYPE_NAMES_Swapped ==
    << "A", "A+", "A-", "Am", "An", "As",
       "H", "H2", "H3", "Hm",
       "P", "Pb", "Pe",
       "T", "T+", "T-", "Tm", "Ts", "Tn" >>

SOLAR_TYPE_NAMES ==
    << "A", "A+", "A-", "Am", "An", "As",
       "H", "H2", "H3", "Hm",
       "P", "Pb", "Pe",
       "T", "T+", "T-", "Tm", "Tn", "Ts" >>

LUNAR_TYPE_NAMES ==
    << "N", "Nb", "Ne", "Nx",
       "P", "Pb", "Pe",
       "T", "T+", "T-", "Tm", "Tn", "Ts" >>

\* ------------------------------------------------------------------------
\* Python builtins the code relies on
\* ------------------------------------------------------------------------

\* round(n / d) for d > 0: to the nearest integer, a tie to the even one.
PyRound(n, d) ==
    LET q == n \div d
        r == n % d
    IN  IF 2 * r < d THEN q
        ELSE IF 2 * r > d THEN q + 1
        ELSE IF q % 2 = 0 THEN q ELSE q + 1

Min(a, b) == IF a <= b THEN a ELSE b

DigitVal ==
    ("0" :> 0) @@ ("1" :> 1) @@ ("2" :> 2) @@ ("3" :> 3) @@ ("4" :> 4) @@
    ("5" :> 5) @@ ("6" :> 6) @@ ("7" :> 7) @@ ("8" :> 8) @@ ("9" :> 9)

\* str.rstrip("s"): every trailing "s" removed.
RECURSIVE RStripS(_)
RStripS(s) ==
    IF Len(s) > 0 /\ s[Len(s)] = "s" THEN RStripS(SubSeq(s, 1, Len(s) - 1)) ELSE s

\* str.split("m"): the pieces between the "m"s (always at least one piece).
RECURSIVE SplitM(_, _)
SplitM(s, cur) ==
    IF s = <<>> THEN <<cur>>
    ELSE IF Head(s) = "m" THEN <<cur>> \o SplitM(Tail(s), <<>>)
    ELSE SplitM(Tail(s), Append(cur, Head(s)))

RECURSIVE DigitsValue(_, _)
DigitsValue(s, acc) ==
    IF s = <<>> THEN acc ELSE DigitsValue(Tail(s), 10 * acc + DigitVal[Head(s)])

IsDigits(s) == Len(s) > 0 /\ \A i \in 1..Len(s) : s[i] \in DOMAIN DigitVal

\* int(s) for a str of an optional sign and decimal digits; anything else
\* of the model's alphabet raises ValueError.
PyInt(s) ==
    IF IsDigits(s) THEN [ok |-> TRUE, val |-> DigitsValue(s, 0)]
    ELSE IF Len(s) > 1 /\ s[1] = "-" /\ IsDigits(Tail(s))
        THEN [ok |-> TRUE, val |-> 0 - DigitsValue(Tail(s), 0)]
    ELSE IF Len(s) > 1 /\ s[1] = "+" /\ IsDigits(Tail(s))
        THEN [ok |-> TRUE, val |-> DigitsValue(Tail(s), 0)]
    ELSE [ok |-> FALSE, val |-> 0]

\* ------------------------------------------------------------------------
\* struct: little-endian packing and unpacking
\* ------------------------------------------------------------------------

\* "B"
FitsU8(v) == v >= 0 /\ v <= 255

\* "H"
FitsU16(v) == v >= 0 /\ v <= 65535

\* "h"
FitsI16(v) == v >= -32768 /\ v <= 32767

PackU8(v) == <<v>>

PackU16(v) == <<v % 256, v \div 256>>

\* two's complement: -1 is ff ff
PackI16(v) == PackU16(v % 65536)

UnpackU16(b, off) == b[off + 1] + 256 * b[off + 2]

UnpackI16(b, off) ==
    LET u == UnpackU16(b, off) IN IF u >= 32768 THEN u - 65536 ELSE u

\* "<q": eight bytes, least significant first, two's complement.  The value is
\* divided down byte by byte (\div rounds toward minus infinity, so a negative
\* value ends in ff bytes).
RECURSIVE PackLE(_, _)
PackLE(v, n) == IF n = 0 THEN <<>> ELSE <<v % 256>> \o PackLE(v \div 256, n - 1)

ECLIPSE_TIMES_RECORD_pack(ts) == PackLE(ts, TIMES_RECORD_SIZE)

RECURSIVE UnpackLE(_, _, _)
UnpackLE(b, off, n) ==
    IF n = 1 THEN (IF b[off + 1] >= 128 THEN b[off + 1] - 256 ELSE b[off + 1])
    ELSE b[off + 1] + 256 * UnpackLE(b, off + 1, n - 1)

TIMES_RECORD_unpack_from(data, off) == UnpackLE(data, off, TIMES_RECORD_SIZE)

\* ------------------------------------------------------------------------
\* Packers (build_db.py)
\* ------------------------------------------------------------------------

Raised(e) == [ok |-> FALSE, err |-> e, bytes |-> <<>>]

Packed(b) == [ok |-> TRUE, err |-> "", bytes |-> b]

\* The "XmYs" parse of pack_solar_info: mins, secs = dur_s.rstrip("s").split("m")
\* and int(mins) * 60 + int(secs).
CentralDurationSeconds(dur_s) ==
    LET parts == SplitM(RStripS(dur_s), <<>>)
    IN  IF Len(parts) # 2 THEN [ok |-> FALSE, val |-> 0]
        ELSE LET mins == PyInt(parts[1])
                 secs == PyInt(parts[2])
             IN  IF mins.ok /\ secs.ok
                 THEN [ok |-> TRUE, val |-> mins.val * 60 + secs.val]
                 ELSE [ok |-> FALSE, val |-> 0]

\* SOLAR_INFO_RECORD.pack: "<hhHBBBB"
SOLAR_INFO_RECORD_pack(lat10, lon10, dur, saros_number, saros_pos, ecl_type, sun_alt) ==
    IF /\ FitsI16(lat10) /\ FitsI16(lon10) /\ FitsU16(dur)
       /\ FitsU8(saros_number) /\ FitsU8(saros_pos) /\ FitsU8(ecl_type) /\ FitsU8(sun_alt)
    THEN Packed(PackI16(lat10) \o PackI16(lon10) \o PackU16(dur) \o PackU8(saros_number)
                \o PackU8(saros_pos) \o PackU8(ecl_type) \o PackU8(sun_alt))
    ELSE Raised("struct.error")

\* LUNAR_INFO_RECORD.pack: "<HHHBBBB"
LUNAR_INFO_RECORD_pack(pen, par, total, saros_number, saros_pos, ecl_type, pad) ==
    IF /\ FitsU16(pen) /\ FitsU16(par) /\ FitsU16(total)
       /\ FitsU8(saros_number) /\ FitsU8(saros_pos) /\ FitsU8(ecl_type) /\ FitsU8(pad)
    THEN Packed(PackU16(pen) \o PackU16(par) \o PackU16(total) \o PackU8(saros_number)
                \o PackU8(saros_pos) \o PackU8(ecl_type) \o PackU8(pad))
    ELSE Raised("struct.error")

SolarTypeLookup(t) == SOLAR_ECL_TYPE_MAP[t]

pack_solar_info(e) ==
    LET lat10 == PyRound(e.latitude_deg, 10)
        lon10 == PyRound(e.longitude_deg, 10)
        dur_s == e.central_duration
        parsed == IF dur_s # None THEN CentralDurationSeconds(dur_s[1])
                  ELSE [ok |-> TRUE, val |-> SENTINEL]
        sun_alt == IF e.sun_alt # None THEN e.sun_alt[1] ELSE 0
    IN  IF ~parsed.ok THEN Raised("ValueError")
        ELSE IF e.ecl_type \notin DOMAIN SOLAR_ECL_TYPE_MAP THEN Raised("KeyError")
        ELSE SOLAR_INFO_RECORD_pack(lat10, lon10, parsed.val, e.saros_number, e.saros_pos,
                                    SolarTypeLookup(e.ecl_type), sun_alt)

\* val is in hundredths of a minute: round(val * 60) is PyRound(val * 60, 100).
minutes_to_seconds(val) ==
    IF val = None THEN SENTINEL ELSE Min(PyRound(val[1] * 60, 100), CLAMP_MAX)

\* LUNAR_ECL_TYPE_MAP.get(t, 0)
LunarTypeLookup(t) ==
    IF t \in DOMAIN LUNAR_ECL_TYPE_MAP THEN LUNAR_ECL_TYPE_MAP[t] ELSE 0

pack_lunar_info(e) ==
    LET pen == minutes_to_seconds(e.pen_duration_m)
        par == minutes_to_seconds(e.par_duration_m)
        total == minutes_to_seconds(e.total_duration_m)
        ecl_type == LunarTypeLookup(e.ecl_type)
    IN  LUNAR_INFO_RECORD_pack(pen, par, total, e.saros_number, e.saros_pos, ecl_type, 0)

\* pack_info = pack_solar_info if kind == "solar" else pack_lunar_info
pack_info(k, e) == IF k = "solar" THEN pack_solar_info(e) ELSE pack_lunar_info(e)

\* ------------------------------------------------------------------------
\* Unpackers (export_csv.py)
\* ------------------------------------------------------------------------

\* SOLAR_INFO_REC.unpack(raw): "<hhHBBBB"; raises unless len(raw) == 10.
SOLAR_INFO_REC_unpack(raw) ==
    [lat |-> UnpackI16(raw, 0), lon |-> UnpackI16(raw, 2), dur |-> UnpackU16(raw, 4),
     saros_number |-> raw[7], pos |-> raw[8], ecl_type |-> raw[9], alt |-> raw[10]]

\* LUNAR_INFO_REC.unpack(raw): "<HHHBBBB"
LUNAR_INFO_REC_unpack(raw) ==
    [pen |-> UnpackU16(raw, 0), par |-> UnpackU16(raw, 2), tot |-> UnpackU16(raw, 4),
     saros_number |-> raw[7], pos |-> raw[8], ecl_type |-> raw[9], pad |-> raw[10]]

\* Mutant: an out-of-range code decodes to the first name.
SolarTypeName_Default(ecl_type) ==
    IF ecl_type < Len(SOLAR_TYPE_NAMES) THEN SOLAR_TYPE_NAMES[ecl_type + 1]
    ELSE SOLAR_TYPE_NAMES[1]

\* SOLAR_TYPE_NAMES[ecl_type] if ecl_type < len(SOLAR_TYPE_NAMES) else str(ecl_type)
SolarTypeName(ecl_type) ==
    IF ecl_type < Len(SOLAR_TYPE_NAMES) THEN SOLAR_TYPE_NAMES[ecl_type + 1]
    ELSE ToString(ecl_type)

LunarTypeName(ecl_type) ==
    IF ecl_type < Len(LUNAR_TYPE_NAMES) THEN LUNAR_TYPE_NAMES[ecl_type + 1]
    ELSE ToString(ecl_type)

\* ------------------------------------------------------------------------
\* State
\* ------------------------------------------------------------------------

VARIABLES
    kind,             \* "solar" or "lunar": the argument of build and load_kind
    data_dir,         \* ROOT_DIR/<kind>: directory name -> its eclipses.jsonl
    listing,          \* the names of ROOT_DIR/<kind> in the order os.listdir returns them
    pc,               \* where build(kind) stands
    eclipses,         \* build's list, loaded and sorted
    saros_index_map,  \* build's dict: saros number -> global indices
    out_files,        \* the files that exist in db/<kind>
    times_db,         \* bytes of eclipse_times.db
    info_db,          \* bytes of eclipse_info.db
    saros_db,         \* bytes of saros.db
    rd_pc,            \* where export_csv's main stands
    rows,             \* export_csv: main's rows
    args,             \* export_csv: the parsed command line
    window,           \* export_csv: main's ts_start and ts_end
    csv_out,          \* export_csv: the rows written to out so far
    open_handles,     \* the file handles that are open
    cal,              \* export_csv: a date and a second of its day, and their conversions
    hdr_pc,           \* where build_headers(kind) stands
    headers,          \* the header files in db/<kind>: file -> what it defines
    v_args,           \* check_sanity: the parsed command line
    v_dirs,           \* check_sanity: kind -> ROOT_DIR/<kind>
    v_pc,             \* where check_sanity's main stands
    v_kinds,          \* main's kinds still to check
    errors,           \* check_series: errors
    missing,          \* check_series: missing
    rel_gap_errors,   \* check_series: rel_gap_errors
    time_gap_errors,  \* check_series: time_gap_errors
    total_errors,     \* main: total_errors
    exit_status       \* the status main exits with, once it has

build_vars == <<kind, data_dir, listing, pc, eclipses, saros_index_map, out_files,
                times_db, info_db, saros_db>>

exp_vars == <<rd_pc, rows, args, window, csv_out>>

hdr_vars == <<hdr_pc, headers>>

val_vars == <<v_args, v_dirs, v_pc, v_kinds, errors, missing, rel_gap_errors,
              time_gap_errors, total_errors, exit_status>>

vars == <<build_vars, exp_vars, hdr_vars, val_vars, open_handles, cal>>

Kinds == {"solar", "lunar"}

\* ------------------------------------------------------------------------
\* File handles
\* ------------------------------------------------------------------------

\* open(path): one more handle is open
Opened(handles) == handles + 1

\* f.close(): one fewer is
Closed(handles) == handles - 1

\* with open(path) as f: ...  The handle is closed when the block is left, by
\* its end or by an exception.
WithOpen(handles) == Closed(Opened(handles))

\* opened handles were opened and no statement closes them: they are open
\* until the interpreter finalises the unreachable file objects, which it may
\* do at once (reference counting) or not before the program ends.
NeverClosed(handles, opened, finalised) == IF finalised THEN handles ELSE handles + opened

\* ------------------------------------------------------------------------
\* load_eclipses
\* ------------------------------------------------------------------------

\* The names os.listdir may return, and int(name) of those that are digits.
NameInt == ("1" :> 1) @@ ("01" :> 1) @@ ("120" :> 120) @@ ("181" :> 181)

DirNames == DOMAIN NameInt \cup {"tmp"}

IsDigit(name) == name \in DOMAIN NameInt

\* key=lambda n: int(n) if n.isdigit() else -1
NameKey(name) == IF IsDigit(name) THEN NameInt[name] ELSE -1

Last(s) == s[Len(s)]

Front(s) == SubSeq(s, 1, Len(s) - 1)

\* sorted(..., key=NameKey): stable, ascending
RECURSIVE InsertByKey(_, _)
InsertByKey(s, n) ==
    IF s = <<>> THEN <<n>>
    ELSE IF NameKey(Last(s)) <= NameKey(n) THEN Append(s, n)
    ELSE Append(InsertByKey(Front(s), n), Last(s))

RECURSIVE SortedNames(_)
SortedNames(names) ==
    IF names = <<>> THEN <<>>
    ELSE InsertByKey(SortedNames(Front(names)), Last(names))

\* The orders of the names of S
Perms(S) ==
    {l \in [1..Cardinality(S) -> S] : \A x \in S : \E i \in 1..Cardinality(S) : l[i] = x}

\* What os.listdir(data_dir) may return: the names in an order the file system
\* chooses.  The orders taken are those already sorted by NameKey: sorted() is
\* stable, so a listing and its sorted form load the same list.
Listings(d) == {SortedNames(l) : l \in Perms(DOMAIN d)}

\* The records of one series file, each with _saros_number and _saros_pos
\* (the line's index in the file).
FileEntries(d, name) ==
    LET lines == d[name].lines
    IN  [i \in 1..Len(lines) |->
            [saros_number |-> NameInt[name], saros_pos |-> i - 1] @@ lines[i]]

RECURSIVE LoadFrom(_, _)
LoadFrom(d, names) ==
    IF names = <<>> THEN <<>>
    ELSE LET name == Head(names)
         IN  IF ~IsDigit(name) THEN LoadFrom(d, Tail(names))
             ELSE IF ~d[name].isfile THEN LoadFrom(d, Tail(names))
             ELSE FileEntries(d, name) \o LoadFrom(d, Tail(names))

\* names is what os.listdir(data_dir) returns
load_eclipses(d, names) == LoadFrom(d, SortedNames(names))

\* ------------------------------------------------------------------------
\* build: sort, index map, the three tables
\* ------------------------------------------------------------------------

\* The place record i of es takes in a stable ascending sort on the timestamp:
\* after every record with a smaller key and every earlier record with its key.
RankByTimestamp(es, i) ==
    Cardinality({j \in 1..Len(es) :
                    \/ es[j].unix_timestamp < es[i].unix_timestamp
                    \/ es[j].unix_timestamp = es[i].unix_timestamp /\ j <= i})

\* Mutant: the list is left in load order.
SortByTimestamp_Unsorted(es) == es

\* list.sort(key=lambda e: e["unix_timestamp"]): stable, ascending
SortByTimestamp(es) ==
    [p \in 1..Len(es) |-> es[CHOOSE i \in 1..Len(es) : RankByTimestamp(es, i) = p]]

\* Mutant: the index is put in front of the list.
SetDefaultAppend_Prepend(m, sn, global_idx) ==
    IF sn \in DOMAIN m THEN [m EXCEPT ![sn] = <<global_idx>> \o @]
    ELSE m @@ (sn :> <<global_idx>>)

\* saros_index_map.setdefault(sn, []).append(global_idx)
SetDefaultAppend(m, sn, global_idx) ==
    IF sn \in DOMAIN m THEN [m EXCEPT ![sn] = Append(@, global_idx)]
    ELSE m @@ (sn :> <<global_idx>>)

\* Rounds lo..hi of the loop over enumerate(eclipses), begun with map m.  (The
\* map of the earlier rounds is looked at before the later rounds begin; an
\* empty map is the map the loop starts with.)
RECURSIVE IndexRounds(_, _, _, _)
IndexRounds(m, es, lo, hi) ==
    IF lo > hi THEN m
    ELSE IF lo = hi THEN SetDefaultAppend(m, es[lo].saros_number, lo - 1)
    ELSE LET mid == (lo + hi) \div 2
             first == IndexRounds(m, es, lo, mid)
         IN  IF DOMAIN first = {} THEN IndexRounds(<<>>, es, mid + 1, hi)
             ELSE IndexRounds(first, es, mid + 1, hi)

\* The loop over enumerate(eclipses), after its first n rounds.
BuildIndexMap(es, n) == IndexRounds(<<>>, es, 1, n)

RECURSIVE Concat(_)
Concat(ss) ==
    IF ss = <<>> THEN <<>>
    ELSE IF Len(ss) = 1 THEN ss[1]
    ELSE LET mid == Len(ss) \div 2
         IN  Concat(SubSeq(ss, 1, mid)) \o Concat(SubSeq(ss, mid + 1, Len(ss)))

TimesBytes(es) == Concat([i \in 1..Len(es) |-> ECLIPSE_TIMES_RECORD_pack(es[i].unix_timestamp)])

\* The index of the first record pack_info raises on, or Len(es) + 1.
FirstBadInfo(k, es) ==
    LET bad == {i \in 1..Len(es) : ~pack_info(k, es[i]).ok}
    IN  IF bad = {} THEN Len(es) + 1 ELSE CHOOSE i \in bad : \A j \in bad : i <= j

\* Mutant: the records are written last to first.
InfoBytes_Reversed(k, es) ==
    LET n == FirstBadInfo(k, es) - 1
    IN  Concat([i \in 1..n |-> pack_info(k, es[n + 1 - i]).bytes])

\* What eclipse_info.db holds when the loop ends or raises.
InfoBytes(k, es) ==
    Concat([i \in 1..(FirstBadInfo(k, es) - 1) |-> pack_info(k, es[i]).bytes])

SAROS_ENTRY_SIZE == 2 + 2 * MAX_ECLIPSES_PER_SAROS

\* [0] * MAX_ECLIPSES_PER_SAROS, and the bytes its words pack to
ZeroWords == [i \in 1..MAX_ECLIPSES_PER_SAROS |-> 0]

ZeroBytes == [i \in 1..(2 * MAX_ECLIPSES_PER_SAROS) |-> 0]

IsZeroRun(w) == Len(w) <= MAX_ECLIPSES_PER_SAROS /\ w = SubSeq(ZeroWords, 1, Len(w))

\* Every value fits "H".  (A run of zeros fits; it is tested as a whole.)
RECURSIVE AllFitU16(_)
AllFitU16(w) ==
    IF IsZeroRun(w) THEN TRUE
    ELSE IF Len(w) = 1 THEN FitsU16(w[1])
    ELSE LET mid == Len(w) \div 2
         IN  AllFitU16(SubSeq(w, 1, mid)) /\ AllFitU16(SubSeq(w, mid + 1, Len(w)))

\* The values packed as "H", one after the other.  (A run of zero words packs
\* to a run of zero bytes; it is packed as a whole.)
RECURSIVE PackWords(_)
PackWords(w) ==
    IF IsZeroRun(w) THEN SubSeq(ZeroBytes, 1, 2 * Len(w))
    ELSE IF Len(w) = 1 THEN PackU16(w[1])
    ELSE LET mid == Len(w) \div 2
         IN  PackWords(SubSeq(w, 1, mid)) \o PackWords(SubSeq(w, mid + 1, Len(w)))

\* Mutant: the record holds 86 indices, as the comments of the headers say.
SAROS_ENTRY_RECORD_pack_Short(count, pad, padded) ==
    IF /\ Len(padded) = MAX_ECLIPSES_PER_SAROS
       /\ FitsU8(count) /\ FitsU8(pad)
       /\ AllFitU16(padded)
    THEN Packed(PackU8(count) \o PackU8(pad) \o PackWords(SubSeq(padded, 1, 86)))
    ELSE Raised("struct.error")

\* SAROS_ENTRY_RECORD.pack(count, 0, *padded): "<BB" + "H" * 96
SAROS_ENTRY_RECORD_pack(count, pad, padded) ==
    IF /\ Len(padded) = MAX_ECLIPSES_PER_SAROS
       /\ FitsU8(count) /\ FitsU8(pad)
       /\ AllFitU16(padded)
    THEN Packed(PackU8(count) \o PackU8(pad) \o PackWords(padded))
    ELSE Raised("struct.error")

\* Mutant: the list is padded with its length, not with 0.
Padded_CountFill(indices) ==
    indices \o [i \in 1..(MAX_ECLIPSES_PER_SAROS - Len(indices)) |-> Len(indices)]

\* Mutant: a list longer than the capacity is cut to it.
Padded_Cut(indices) ==
    SubSeq(indices \o ZeroWords, 1, MAX_ECLIPSES_PER_SAROS)

\* indices + [0] * (MAX_ECLIPSES_PER_SAROS - count); a list times a negative
\* number is the empty list, as SubSeq(s, 1, n) of an n < 1 is
Padded(indices) ==
    indices \o SubSeq(ZeroWords, 1, MAX_ECLIPSES_PER_SAROS - Len(indices))

\* saros_index_map.get(sn, [])
SarosIndices(m, sn) == IF sn \in DOMAIN m THEN m[sn] ELSE <<>>

SarosEntry(m, sn) ==
    LET indices == SarosIndices(m, sn)
    IN  SAROS_ENTRY_RECORD_pack(Len(indices), 0, Padded(indices))

\* The rounds lo..hi of the loop over range(1, 181): the bytes they write, and
\* whether they end without raising (a round that raises ends the loop).  The
\* range is halved rather than walked, which keeps the evaluation shallow.
RECURSIVE SarosLoop(_, _, _)
SarosLoop(m, lo, hi) ==
    IF lo > hi THEN Packed(<<>>)
    ELSE IF lo = hi THEN SarosEntry(m, lo)
    ELSE LET mid == (lo + hi) \div 2
             first == SarosLoop(m, lo, mid)
         IN  IF ~first.ok THEN first
             ELSE LET rest == SarosLoop(m, mid + 1, hi)
                  IN  [rest EXCEPT !.bytes = first.bytes \o @]

\* ------------------------------------------------------------------------
\* build_headers: the slices and the three headers of each
\* ------------------------------------------------------------------------

\* build_headers' slices: ("all", 1, 180, all_eclipses) and ("modern", 110,
\* 173, the records of saros numbers 110..173), in this order
Slices(all_eclipses) ==
    << [label |-> "all", s_start |-> 1, s_end |-> 180, eclipses |-> all_eclipses],
       [label |-> "modern", s_start |-> 110, s_end |-> 173,
        eclipses |-> SelectSeq(all_eclipses,
                               LAMBDA e : 110 <= e.saros_number /\ e.saros_number <= 173)] >>

\* os.path.join(out_dir, f"{table}_{label}.h")
HeaderFile(table, label) == <<table, label>>

\* What a header defines: the three macros (and SAROS_COUNT in the saros
\* header), and the array, kept as the bytes its initialiser lists in order
\* (bytes_to_c_array writes one 0x%02x literal per byte of the blob).
HeaderText(n, saros_start, saros_end, blob) ==
    [COUNT |-> n, SAROS_FIRST |-> saros_start, SAROS_LAST |-> saros_end, array |-> blob]

emit_times_header(es, label, saros_start, saros_end) ==
    HeaderText(Len(es), saros_start, saros_end, TimesBytes(es))

\* emit_solar_info_header / emit_lunar_info_header: the join raises when a
\* pack_info does, and then no file is opened
emit_info_header(k, es, label, saros_start, saros_end) ==
    IF FirstBadInfo(k, es) <= Len(es)
    THEN Raised(pack_info(k, es[FirstBadInfo(k, es)]).err)
    ELSE [ok |-> TRUE, err |-> "",
          text |-> HeaderText(Len(es), saros_start, saros_end, InfoBytes(k, es))]

\* Mutant: the loop starts one saros number late.
emit_saros_header_blob_Shifted(es, saros_start, saros_end) ==
    SarosLoop(BuildIndexMap(es, Len(es)), saros_start + 1, saros_end + 1)

\* emit_saros_header, lines 340-349: saros_local_map by setdefault/append over
\* enumerate(eclipses), then one packed record per sn of
\* range(saros_start, saros_end + 1); these lines repeat build's.
emit_saros_header_blob(es, saros_start, saros_end) ==
    SarosLoop(BuildIndexMap(es, Len(es)), saros_start, saros_end)

\* The comment above the array (lines 361-363) says "174-byte records" and
\* "uint16 indices[86]", whatever SAROS_ENTRY_RECORD is.
emit_saros_header(es, label, saros_start, saros_end) ==
    LET blob == emit_saros_header_blob(es, saros_start, saros_end)
    IN  IF ~blob.ok THEN Raised(blob.err)
        ELSE [ok |-> TRUE, err |-> "",
              text |-> [SAROS_COUNT |-> saros_end - saros_start + 1,
                        comment |-> [record_bytes |-> 174, indices |-> 86]]
                       @@ HeaderText(Len(es), saros_start, saros_end, blob.bytes)]

\* One round of build_headers' loop over slices: the files it leaves, and
\* whether it ends without raising.
EmitSliceHeaders(k, sl, files) ==
    LET t == emit_times_header(sl.eclipses, sl.label, sl.s_start, sl.s_end)
        i == emit_info_header(k, sl.eclipses, sl.label, sl.s_start, sl.s_end)
        s == emit_saros_header(sl.eclipses, sl.label, sl.s_start, sl.s_end)
        with_t == (HeaderFile("eclipse_times", sl.label) :> t) @@ files
        with_i == (HeaderFile("eclipse_info", sl.label) :> i.text) @@ with_t
        with_s == (HeaderFile("saros", sl.label) :> s.text) @@ with_i
    IN  IF ~i.ok THEN [ok |-> FALSE, files |-> with_t]
        ELSE IF ~s.ok THEN [ok |-> FALSE, files |-> with_i]
        ELSE [ok |-> TRUE, files |-> with_s]

\* ------------------------------------------------------------------------
\* check_sanity.py: check_series
\* ------------------------------------------------------------------------

\* SAROS_PERIOD_YEARS * 1.5 = 27.0465 years; years are kept in
\* ten-thousandths.
DEFAULT_MAX_GAP == 270465

\* max_gap_years * 365.25 * 86400, rounded down: a year is 31557600 s, a
\* ten-thousandth of a year 3155.76 s.  delta_s is an integer, so it exceeds
\* the product exactly when it exceeds the product rounded down.
MaxGapSecs(max_gap_years) == max_gap_years * 3155 + (max_gap_years * 76) \div 100

\* A line of a series file: text json.loads accepts as an object, or not
JsonLine(obj) == [json |-> TRUE, obj |-> obj]

Malformed == [json |-> FALSE, obj |-> <<>>]

\* ROOT_DIR/<kind>/<name>/eclipses.jsonl
VNoFile == [exists |-> FALSE, readable |-> FALSE, lines |-> <<>>]

VFile(lines) == [exists |-> TRUE, readable |-> TRUE, lines |-> lines]

\* A path that exists and that open() raises on
Unreadable == [exists |-> TRUE, readable |-> FALSE, lines |-> <<>>]

\* ROOT_DIR/<kind>/<sn>/eclipses.jsonl.  A directory is kept as the files of
\* the numbered directories that differ from one another (files), the file
\* that every other numbered directory of 1..181 holds (rest), and the file
\* of a directory whose name is not a number (tmp).
SeriesFile(dir, sn) == IF sn \in DOMAIN dir.files THEN dir.files[sn] ELSE dir.rest

\* Mutant: the coverage loop runs one saros number too far.
missing_series_To181(dir) ==
    SelectSeq([sn \in 1..(LAST_SAROS + 1) |-> sn], LAMBDA sn : ~SeriesFile(dir, sn).exists)

\* check_series, lines 34-38: the sn of range(1, 181) whose path does not exist
missing_series(dir) ==
    SelectSeq([sn \in 1..LAST_SAROS |-> sn], LAMBDA sn : ~SeriesFile(dir, sn).exists)

\* [json.loads(l) for l in open(path)] raises
ReadRaises(f) == ~f.readable \/ \E i \in 1..Len(f.lines) : ~f.lines[i].json

\* sorted(data, key=lambda e: e["rel_num"]): stable, ascending
RECURSIVE InsertByRelNum(_, _)
InsertByRelNum(s, e) ==
    IF s = <<>> THEN <<e>>
    ELSE IF Last(s)["rel_num"] <= e["rel_num"] THEN Append(s, e)
    ELSE Append(InsertByRelNum(Front(s), e), Last(s))

RECURSIVE SortByRelNum(_)
SortByRelNum(data) ==
    IF data = <<>> THEN <<>>
    ELSE InsertByRelNum(SortByRelNum(Front(data)), Last(data))

Has(e, field) == field \in DOMAIN e

\* Mutant: only a jump ahead is a defect.
RelGapIsDefect_Jump(gap) == gap > 1

\* if gap != 1
RelGapIsDefect(gap) == gap # 1

\* Mutant: a gap of exactly the threshold is a defect too.
TimeGapIsDefect_AtLeast(delta_s, max_gap_secs) == delta_s >= max_gap_secs

\* if delta_s > max_gap_secs
TimeGapIsDefect(delta_s, max_gap_secs) == delta_s > max_gap_secs

RelGap(by_rel, i) == by_rel[i]["rel_num"] - by_rel[i - 1]["rel_num"]

\* check_series, lines 68-75: what the loop appends for one file
RelGapErrors(saros, by_rel) ==
    LET at == SelectSeq([i \in 1..(Len(by_rel) - 1) |-> i + 1],
                        LAMBDA i : RelGapIsDefect(RelGap(by_rel, i)))
    IN  [k \in 1..Len(at) |->
            << saros, RelGap(by_rel, at[k]),
               by_rel[at[k] - 1]["rel_num"], by_rel[at[k] - 1]["calendar_date"],
               by_rel[at[k]]["rel_num"], by_rel[at[k]]["calendar_date"] >>]

TimeDelta(by_rel, i) == by_rel[i]["unix_timestamp"] - by_rel[i - 1]["unix_timestamp"]

\* check_series, lines 78-86: what the loop appends for one file; the years
\* of the second component are kept as the seconds they are computed from
TimeGapErrors(saros, by_rel, max_gap_secs) ==
    LET at == SelectSeq([i \in 1..(Len(by_rel) - 1) |-> i + 1],
                        LAMBDA i : TimeGapIsDefect(TimeDelta(by_rel, i), max_gap_secs))
    IN  [k \in 1..Len(at) |->
            << saros, TimeDelta(by_rel, at[k]),
               by_rel[at[k] - 1]["calendar_date"], by_rel[at[k]]["calendar_date"] >>]

\* The KeyError of lines 65-86: a record without "rel_num" in the sort, one
\* without "unix_timestamp" in a pair, one without "calendar_date" in a pair
\* that is appended.  The lines are outside the try.
ChecksRaise(data, max_gap_secs) ==
    \/ \E i \in 1..Len(data) : ~Has(data[i], "rel_num")
    \/ LET by_rel == SortByRelNum(data)
           NoDate(i) == ~Has(by_rel[i], "calendar_date") \/ ~Has(by_rel[i - 1], "calendar_date")
       IN  \/ \E i \in 2..Len(by_rel) : RelGapIsDefect(RelGap(by_rel, i)) /\ NoDate(i)
           \/ \E i \in 2..Len(by_rel) :
                 ~Has(by_rel[i], "unix_timestamp") \/ ~Has(by_rel[i - 1], "unix_timestamp")
           \/ \E i \in 2..Len(by_rel) :
                 TimeGapIsDefect(TimeDelta(by_rel, i), max_gap_secs) /\ NoDate(i)

NothingFound == [aborted |-> FALSE, file_errors |-> 0, rel |-> <<>>, time |-> <<>>]

\* check_series, lines 51-86: one round of the loop over the files
CheckFile(saros, f, max_gap_secs) ==
    LET data == [i \in 1..Len(f.lines) |-> f.lines[i].obj]
    IN  IF ReadRaises(f) THEN [NothingFound EXCEPT !.file_errors = 1]
        ELSE IF data = <<>> THEN [NothingFound EXCEPT !.file_errors = 1]
        ELSE IF ChecksRaise(data, max_gap_secs) THEN [NothingFound EXCEPT !.aborted = TRUE]
        ELSE [NothingFound EXCEPT !.rel = RelGapErrors(saros, SortByRelNum(data)),
                                  !.time = TimeGapErrors(saros, SortByRelNum(data), max_gap_secs)]

\* The rounds for the numbered directories lo..hi that glob matches, in the
\* order of the sort; a round that raises ends the loop.  The range is halved
\* rather than walked.
RECURSIVE ScanRange(_, _, _, _)
ScanRange(dir, lo, hi, max_gap_secs) ==
    IF lo > hi THEN NothingFound
    ELSE IF lo = hi
    THEN IF SeriesFile(dir, lo).exists THEN CheckFile(lo, SeriesFile(dir, lo), max_gap_secs)
         ELSE NothingFound
    ELSE LET mid == (lo + hi) \div 2
             first == ScanRange(dir, lo, mid, max_gap_secs)
         IN  IF first.aborted THEN first
             ELSE LET rest == ScanRange(dir, mid + 1, hi, max_gap_secs)
                  IN  [aborted |-> rest.aborted,
                       file_errors |-> first.file_errors + rest.file_errors,
                       rel |-> first.rel \o rest.rel,
                       time |-> first.time \o rest.time]

\* check_series, lines 49-86.  The key of the sort is int() of the directory
\* name: a directory whose name is not a number and that holds an
\* eclipses.jsonl makes sorted() raise ValueError before the first round.
ScanFiles(dir, max_gap_secs) ==
    IF dir.tmp.exists THEN [NothingFound EXCEPT !.aborted = TRUE]
    ELSE ScanRange(dir, 1, LAST_SAROS + 1, max_gap_secs)

\* The handles the loop of lines 49-86 opens: one for each file that open()
\* takes, up to the round that raises.  Line 53 opens the file in the list
\* comprehension and nothing closes it.
OpenedByScan(dir, max_gap_secs) ==
    IF dir.tmp.exists THEN 0
    ELSE LET numbered == 1..(LAST_SAROS + 1)
             aborting ==
                 {sn \in DOMAIN dir.files :
                     /\ dir.files[sn].exists
                     /\ CheckFile(sn, dir.files[sn], max_gap_secs).aborted}
                 \cup (IF dir.rest.exists /\ CheckFile(0, dir.rest, max_gap_secs).aborted
                       THEN numbered \ DOMAIN dir.files ELSE {})
             stop == IF aborting = {} THEN LAST_SAROS + 1
                     ELSE CHOOSE sn \in aborting : \A other \in aborting : sn <= other
         IN  Cardinality({sn \in 1..stop :
                             SeriesFile(dir, sn).exists /\ SeriesFile(dir, sn).readable})

\* main, line 118
KindsToCheck(a) == IF a.kind = "both" THEN <<"solar", "lunar">> ELSE <<a.kind>>

\* Mutant: main always exits with 0.
ExitStatusOf_Zero(total) == 0

\* main, line 135: sys.exit(0 if total_errors == 0 else 1)
ExitStatusOf(total) == IF total = 0 THEN 0 ELSE 1

\* ------------------------------------------------------------------------
\* load_kind (export_csv.py)
\* ------------------------------------------------------------------------

\* _load_times: count = size // 8, then unpack_from(data, i * 8)
load_times(data) ==
    [i \in 1..(Len(data) \div TIMES_RECORD_SIZE) |->
        TIMES_RECORD_unpack_from(data, (i - 1) * TIMES_RECORD_SIZE)]

\* f.read(10), the i-th time (i from 1): what is left of the file, at most 10 bytes
ReadInfoRaw(data, i) ==
    SubSeq(data, (i - 1) * INFO_RECORD_SIZE + 1, Min(i * INFO_RECORD_SIZE, Len(data)))

\* _load_info_solar / _load_info_lunar: one dict per record
InfoDict(k, raw) ==
    IF k = "solar"
    THEN LET u == SOLAR_INFO_REC_unpack(raw)
         IN  [saros_number |-> u.saros_number, type_name |-> SolarTypeName(u.ecl_type)]
    ELSE LET u == LUNAR_INFO_REC_unpack(raw)
         IN  [saros_number |-> u.saros_number, type_name |-> LunarTypeName(u.ecl_type)]

\* unpack raises struct.error on a raw that is not 10 bytes long
LoadInfoRaises(data, count) ==
    \E i \in 1..count : Len(ReadInfoRaw(data, i)) # INFO_RECORD_SIZE

load_info(k, data, count) == [i \in 1..count |-> InfoDict(k, ReadInfoRaw(data, i))]

Prefix(k) == IF k = "solar" THEN "S" ELSE "L"

\* The row of zip(times, infos); "type" is f"{prefix} [{type_name}]", kept as
\* its two parts.
Row(k, ts, info) ==
    [ts |-> ts, saros_number |-> info.saros_number, type |-> <<Prefix(k), info.type_name>>]

\* ------------------------------------------------------------------------
\* export_csv.py: dates and the range filter
\* ------------------------------------------------------------------------

\* _JD_UNIX_EPOCH
JD_UNIX_EPOCH == 2440588

\* Mutant: the day number of the Julian calendar, without the century rule.
gregorian_to_days_Julian(year, month, day) ==
    LET a == (14 - month) \div 12
        y == year + 4800 - a
        mo == month + 12 * a - 3
        jd == day + (153 * mo + 2) \div 5 + 365 * y + y \div 4 - 32083
    IN  jd - JD_UNIX_EPOCH

\* _gregorian_to_unix, lines 113-117: jd - _JD_UNIX_EPOCH, the number of the
\* day counted from 1970-01-01
gregorian_to_days(year, month, day) ==
    LET a == (14 - month) \div 12
        y == year + 4800 - a
        mo == month + 12 * a - 3
        jd == day + (153 * mo + 2) \div 5 + 365 * y + y \div 4 - y \div 100 + y \div 400 - 32045
    IN  jd - JD_UNIX_EPOCH

\* _gregorian_to_unix: midnight UTC of a Gregorian date
gregorian_to_unix(year, month, day) == gregorian_to_days(year, month, day) * 86400

\* str.split("-"): the pieces between the "-"s (always at least one piece)
RECURSIVE SplitDash(_, _)
SplitDash(s, cur) ==
    IF s = <<>> THEN <<cur>>
    ELSE IF Head(s) = "-" THEN <<cur>> \o SplitDash(Tail(s), <<>>)
    ELSE SplitDash(Tail(s), Append(cur, Head(s)))

\* _parse_date: ValueError unless there are three parts and int() takes each
parse_date(s) ==
    LET parts == SplitDash(s, <<>>)
    IN  IF Len(parts) # 3 THEN [ok |-> FALSE, val |-> 0]
        ELSE IF \E i \in 1..3 : ~PyInt(parts[i]).ok THEN [ok |-> FALSE, val |-> 0]
        ELSE [ok |-> TRUE,
              val |-> gregorian_to_unix(PyInt(parts[1]).val, PyInt(parts[2]).val,
                                        PyInt(parts[3]).val)]

\* _unix_to_gregorian, lines 90-94: the day of a timestamp and the second of
\* that day.  Python's // and % round to the floor, as \div and % do, so rem
\* is never negative.
DayAndSecond(ts) ==
    LET days == ts \div 86400
        rem == ts % 86400
    IN  IF rem < 0 THEN [days |-> days - 1, rem |-> rem + 86400]
        ELSE [days |-> days, rem |-> rem]

\* _unix_to_gregorian, lines 95-109: (year, month, day, hh, mm, ss) of a day
\* and a second of it
CivilOf(days, rem) ==
    LET hh == rem \div 3600
        mm == (rem % 3600) \div 60
        ss == rem % 60
        jd == days + JD_UNIX_EPOCH
        a == jd + 32044
        b == (4 * a + 3) \div 146097
        c == a - (b * 146097) \div 4
        d == (4 * c + 3) \div 1461
        e == c - (1461 * d) \div 4
        m == (5 * e + 2) \div 153
    IN  [year |-> b * 100 + d - 4800 + m \div 10,
         month |-> m + 3 - 12 * (m \div 10),
         day |-> e - (153 * m + 2) \div 5 + 1,
         hh |-> hh, mm |-> mm, ss |-> ss]

\* _unix_to_gregorian
unix_to_gregorian(ts) == CivilOf(DayAndSecond(ts).days, DayAndSecond(ts).rem)

DigitChar == <<"0", "1", "2", "3", "4", "5", "6", "7", "8", "9">>

\* str(n) of an n >= 0
RECURSIVE Digits(_)
Digits(n) ==
    IF n < 10 THEN <<DigitChar[n + 1]>> ELSE Append(Digits(n \div 10), DigitChar[(n % 10) + 1])

RECURSIVE ZeroPad(_, _)
ZeroPad(s, width) == IF Len(s) >= width THEN s ELSE ZeroPad(<<"0">> \o s, width)

\* f"{n:0<width>d}": zeros after the sign, which counts in the width
FormatD(n, width) ==
    IF n < 0 THEN <<"-">> \o ZeroPad(Digits(-n), width - 1) ELSE ZeroPad(Digits(n), width)

\* main, lines 234-238: the line of a row
CsvLine(r) ==
    LET g == unix_to_gregorian(r.ts)
    IN  << FormatD(r.saros_number, 1), r.type,
           FormatD(g.day, 2) \o <<".">> \o FormatD(g.month, 2) \o <<".">> \o FormatD(g.year, 4),
           FormatD(g.hh, 2) \o <<":">> \o FormatD(g.mm, 2) \o <<":">> \o FormatD(g.ss, 2) >>

\* main, lines 232-238: the header line, then one line for each row
CsvLines(rs) ==
    << <<"saros_number", "type", "date", "time">> >> \o [i \in 1..Len(rs) |-> CsvLine(rs[i])]

\* Mutant: the end stays at the midnight that begins its day.
EndOfDay_Midnight(ts_end) == ts_end

\* main, lines 214-215: ts_end += 86399
EndOfDay(ts_end) == ts_end + 86399

\* main, lines 203-209
ExportKinds(a) ==
    IF a.solar THEN <<"solar">> ELSE IF a.lunar THEN <<"lunar">> ELSE <<"solar", "lunar">>

\* rows.sort(key=lambda r: r["ts"]): stable, ascending
RankByTs(rs, i) ==
    Cardinality({j \in 1..Len(rs) : rs[j].ts < rs[i].ts \/ (rs[j].ts = rs[i].ts /\ j <= i)})

SortByTs(rs) == [p \in 1..Len(rs) |-> rs[CHOOSE i \in 1..Len(rs) : RankByTs(rs, i) = p]]

\* main, lines 223-226: the two filters, each applied when its bound is given
FilterRows(rs, ts_start, ts_end) ==
    LET from == IF ts_start # None THEN SelectSeq(rs, LAMBDA r : r.ts >= ts_start[1]) ELSE rs
    IN  IF ts_end # None THEN SelectSeq(from, LAMBDA r : r.ts <= ts_end[1]) ELSE from

\* ------------------------------------------------------------------------
\* Inputs
\* ------------------------------------------------------------------------

TsChoices == {-300, 200}

LatChoices == {-9000, 1235, 6330}

LonChoices == {-18000, 1205}

\* "2m05s", "0m00s", "1092m14s", "1092m15s", "1100m00s", "5s", "-1m05s"
DurChoices ==
    { None,
      Some(<<"2", "m", "0", "5", "s">>),
      Some(<<"0", "m", "0", "0", "s">>),
      Some(<<"1", "0", "9", "2", "m", "1", "4", "s">>),
      Some(<<"1", "0", "9", "2", "m", "1", "5", "s">>),
      Some(<<"1", "1", "0", "0", "m", "0", "0", "s">>),
      Some(<<"5", "s">>),
      Some(<<"-", "1", "m", "0", "5", "s">>) }

SunAltChoices == {None, Some(0), Some(45), Some(-1)}

SolarTypeChoices == {"A", "P", "Ts", "N", "Zz"}

LunarTypeChoices == {"N", "P", "Ts", "A", "Zz"}

\* hundredths of a minute: 0, 55.6, 1092.25 (65535 s), 1100 (66000 s), -1
MinutesChoices == {None, Some(0), Some(5560), Some(109225), Some(-100)}

SolarRecords ==
    [unix_timestamp : {-300}, latitude_deg : LatChoices, longitude_deg : LonChoices,
     central_duration : DurChoices, ecl_type : SolarTypeChoices, sun_alt : SunAltChoices]

LunarRecords ==
    [unix_timestamp : {-300}, pen_duration_m : MinutesChoices,
     par_duration_m : MinutesChoices, total_duration_m : MinutesChoices,
     ecl_type : LunarTypeChoices]

\* The records of the many-series inputs: they differ in their timestamps.
PlainRecords(k) ==
    IF k = "solar"
    THEN [unix_timestamp : TsChoices, latitude_deg : {6330}, longitude_deg : {-1205},
          central_duration : {Some(<<"2", "m", "0", "5", "s">>)}, ecl_type : {"Ts"},
          sun_alt : {Some(45)}]
    ELSE [unix_timestamp : TsChoices, pen_duration_m : {Some(5560)},
          par_duration_m : {None}, total_duration_m : {None}, ecl_type : {"Ts"}]

NoFile == [isfile |-> FALSE, lines |-> <<>>]

File(lines) == [isfile |-> TRUE, lines |-> lines]

\* A directory that is not a series: load_eclipses skips it.
TmpDir(k) == File(<<CHOOSE r \in PlainRecords(k) : r.unix_timestamp = 200>>)

\* A series directory: without eclipses.jsonl, or with one of n lines.
SeriesDirs(k, n) ==
    IF n = 0 THEN {NoFile, File(<<>>)} ELSE {File(l) : l \in [1..n -> PlainRecords(k)]}

\* export_csv.py has not run; it will be run without arguments.
NoArgs == [start |-> None, end |-> None, output |-> None, solar |-> FALSE, lunar |-> FALSE]

NoExport ==
    /\ rd_pc = "idle"
    /\ rows = <<>>
    /\ args = NoArgs
    /\ window = [ts_start |-> None, ts_end |-> None]
    /\ csv_out = None

\* build_headers has not run and db/<kind> holds no header.
NoHeaders ==
    /\ hdr_pc = "idle"
    /\ headers = <<>>

\* check_sanity.py has not run.
NoValidation ==
    /\ v_args = [kind |-> "both", max_gap |-> DEFAULT_MAX_GAP]
    /\ v_dirs = <<>>
    /\ v_pc = "start"
    /\ v_kinds = <<>>
    /\ errors = 0
    /\ missing = <<>>
    /\ rel_gap_errors = <<>>
    /\ time_gap_errors = <<>>
    /\ total_errors = 0
    /\ exit_status = None

\* No program is running: no file handle is open
NoHandles == open_handles = 0

\* No date is being converted
NoCalendar == cal = [pc |-> "idle"]

\* build has not run and db/<kind> is empty
NoBuild ==
    /\ pc = "start"
    /\ eclipses = <<>>
    /\ saros_index_map = <<>>
    /\ out_files = {}
    /\ times_db = <<>>
    /\ info_db = <<>>
    /\ saros_db = <<>>

NoOutput ==
    /\ NoCalendar
    /\ NoBuild
    /\ NoExport
    /\ NoHeaders
    /\ NoHandles
    /\ NoValidation

\* Several series files, MaxTotal lines in all, lines in any order.
InitSeries ==
    /\ kind \in Kinds
    /\ \E n1 \in 0..MaxTotal :
         \E n2 \in 0..(MaxTotal - n1) :
           \E n3 \in 0..(MaxTotal - n1 - n2) :
             \E f1 \in SeriesDirs(kind, n1), f2 \in SeriesDirs(kind, n2), f3 \in SeriesDirs(kind, n3) :
               data_dir = ("1" :> f1) @@ ("120" :> f2) @@ ("181" :> f3) @@ ("tmp" :> TmpDir(kind))
    /\ listing \in Listings(data_dir)
    /\ NoOutput

\* One series file of one record, the record's fields from all their choices.
InitRecord ==
    /\ kind \in Kinds
    /\ \E r \in (IF kind = "solar" THEN SolarRecords ELSE LunarRecords) :
         data_dir = ("1" :> File(<<r>>)) @@ ("120" :> NoFile) @@ ("181" :> NoFile)
                    @@ ("tmp" :> TmpDir(kind))
    /\ listing \in Listings(data_dir)
    /\ NoOutput

\* Type bytes of a catalog written with another version of the enumeration.
ForeignTypeBytes == {0, 12, 13, 18, 19, 255}

ForeignInfo(k, t1, t2) ==
    IF k = "solar"
    THEN SOLAR_INFO_RECORD_pack(633, -1205, 125, 1, 0, t1, 45).bytes
         \o SOLAR_INFO_RECORD_pack(-900, 1800, SENTINEL, 120, 0, t2, 0).bytes
    ELSE LUNAR_INFO_RECORD_pack(3336, SENTINEL, SENTINEL, 1, 0, t1, 0).bytes
         \o LUNAR_INFO_RECORD_pack(20000, 12000, 3000, 120, 0, t2, 0).bytes

\* No series files, and in db/<kind> a catalog of two records that some other
\* build wrote: load_kind reads whatever files are there.
InitForeign ==
    /\ kind \in Kinds
    /\ data_dir = ("1" :> NoFile) @@ ("120" :> NoFile) @@ ("181" :> NoFile)
                  @@ ("tmp" :> TmpDir(kind))
    /\ listing \in Listings(data_dir)
    /\ pc = "start"
    /\ eclipses = <<>>
    /\ saros_index_map = <<>>
    /\ out_files = {"eclipse_times.db", "eclipse_info.db", "saros.db"}
    /\ times_db = ECLIPSE_TIMES_RECORD_pack(-300) \o ECLIPSE_TIMES_RECORD_pack(200)
    /\ \E t1 \in ForeignTypeBytes, t2 \in ForeignTypeBytes :
         info_db = ForeignInfo(kind, t1, t2)
    /\ saros_db = SarosLoop((1 :> <<0>>) @@ (120 :> <<1>>), 1, LAST_SAROS).bytes
    /\ NoCalendar
    /\ NoExport
    /\ NoHeaders
    /\ NoHandles
    /\ NoValidation

\* The record of PlainRecords(k) with timestamp ts, and one that differs from
\* it in a field the InfoTable encodes.
PlainRecord(k, ts) == CHOOSE r \in PlainRecords(k) : r.unix_timestamp = ts

OtherRecord(k, ts) ==
    IF k = "solar" THEN [PlainRecord(k, ts) EXCEPT !.latitude_deg = -9000]
    ELSE [PlainRecord(k, ts) EXCEPT !.pen_duration_m = Some(0)]

\* Two directories whose names are digits of the same int, "1" and "01", each
\* with a file of one record: load_eclipses loads both as series 1.
InitAlias ==
    /\ kind \in Kinds
    /\ \E ts1 \in TsChoices, ts2 \in TsChoices :
         data_dir = ("1" :> File(<<PlainRecord(kind, ts1)>>))
                    @@ ("01" :> File(<<OtherRecord(kind, ts2)>>))
                    @@ ("tmp" :> TmpDir(kind))
    /\ listing \in Listings(data_dir)
    /\ NoOutput

\* The lines of a long series file: n records of distinct timestamps, not in
\* time order
LongLines(k, n) ==
    [i \in 1..n |-> [PlainRecord(k, 200) EXCEPT !.unix_timestamp = 1000 * ((i * 37) % 101)]]

\* Series 120 with as many records as a slot holds, or one more, and series 1
\* with one record.  (The SeriesIndex is written by the same lines for both
\* kinds; the long series are solar.)
InitLong ==
    /\ kind = "solar"
    /\ \E n \in {MAX_ECLIPSES_PER_SAROS, MAX_ECLIPSES_PER_SAROS + 1} :
         data_dir = ("1" :> File(<<PlainRecord(kind, 200)>>))
                    @@ ("120" :> File(LongLines(kind, n))) @@ ("181" :> NoFile)
                    @@ ("tmp" :> TmpDir(kind))
    /\ listing \in Listings(data_dir)
    /\ NoOutput

Init == InitSeries \/ InitRecord \/ InitForeign \/ InitAlias \/ InitLong

\* ------------------------------------------------------------------------
\* Actions of build(kind, out_dir)
\* ------------------------------------------------------------------------

\* build, lines 158-173: load, sort, index.  Nothing is written yet.
LoadAndSort ==
    /\ pc = "start"
    /\ LET loaded == load_eclipses(data_dir, listing)
           sorted == SortByTimestamp(loaded)
       IN  IF loaded = <<>>
           THEN /\ pc' = "skipped"
                /\ UNCHANGED <<eclipses, saros_index_map>>
           ELSE /\ pc' = "indexed"
                /\ eclipses' = sorted
                /\ saros_index_map' = BuildIndexMap(sorted, Len(sorted))
    /\ UNCHANGED <<kind, data_dir, listing, out_files, times_db, info_db, saros_db>>
    /\ open_handles' = WithOpen(open_handles)
    /\ UNCHANGED <<cal, exp_vars, hdr_vars, val_vars>>

\* build, lines 175-180: eclipse_times.db
WriteTimes ==
    /\ pc = "indexed"
    /\ out_files' = out_files \cup {"eclipse_times.db"}
    /\ times_db' = TimesBytes(eclipses)
    /\ pc' = "times_written"
    /\ UNCHANGED <<kind, data_dir, listing, eclipses, saros_index_map, info_db, saros_db>>
    /\ open_handles' = WithOpen(open_handles)
    /\ UNCHANGED <<cal, exp_vars, hdr_vars, val_vars>>

\* build, lines 182-187: eclipse_info.db; a pack_info that raises ends the build
WriteInfo ==
    /\ pc = "times_written"
    /\ out_files' = out_files \cup {"eclipse_info.db"}
    /\ info_db' = InfoBytes(kind, eclipses)
    /\ pc' = IF FirstBadInfo(kind, eclipses) > Len(eclipses) THEN "info_written" ELSE "failed"
    /\ UNCHANGED <<kind, data_dir, listing, eclipses, saros_index_map, times_db, saros_db>>
    /\ open_handles' = WithOpen(open_handles)
    /\ UNCHANGED <<cal, exp_vars, hdr_vars, val_vars>>

\* build, lines 189-203: saros.db; a pack that raises ends the build
WriteSaros ==
    /\ pc = "info_written"
    /\ out_files' = out_files \cup {"saros.db"}
    /\ LET written == SarosLoop(saros_index_map, 1, LAST_SAROS)
       IN  /\ saros_db' = written.bytes
           /\ pc' = IF written.ok THEN "done" ELSE "failed"
    /\ UNCHANGED <<kind, data_dir, listing, eclipses, saros_index_map, times_db, info_db>>
    /\ open_handles' = WithOpen(open_handles)
    /\ UNCHANGED <<cal, exp_vars, hdr_vars, val_vars>>

\* ------------------------------------------------------------------------
\* Actions of build_headers(kind, out_dir), which __main__ calls when
\* build(kind, out_dir) has returned
\* ------------------------------------------------------------------------

\* build_headers, lines 373-388: load again, sort, slice
LoadForHeaders ==
    /\ hdr_pc = "idle"
    /\ pc \in {"skipped", "done"}
    /\ hdr_pc' = IF load_eclipses(data_dir, listing) = <<>> THEN "skipped" ELSE "sliced"
    /\ open_handles' = WithOpen(open_handles)
    /\ UNCHANGED <<cal, build_vars, exp_vars, headers, val_vars>>

\* build_headers, lines 390-398: one round of the loop over slices
EmitSlice ==
    /\ hdr_pc \in {"sliced", "all_emitted"}
    /\ LET slices == Slices(SortByTimestamp(load_eclipses(data_dir, listing)))
           sl == IF hdr_pc = "sliced" THEN slices[1] ELSE slices[2]
           out == EmitSliceHeaders(kind, sl, headers)
       IN  /\ headers' = out.files
           /\ hdr_pc' = IF ~out.ok THEN "failed"
                        ELSE IF hdr_pc = "sliced" THEN "all_emitted" ELSE "done"
    /\ open_handles' = WithOpen(open_handles)
    /\ UNCHANGED <<cal, build_vars, exp_vars, val_vars>>

\* ------------------------------------------------------------------------
\* load_kind(kind), run once build has ended (or before it starts)
\* ------------------------------------------------------------------------

BuildEnded == pc \in {"skipped", "failed", "done"}

LoadKind ==
    /\ rd_pc = "idle"
    /\ BuildEnded
    /\ IF "eclipse_times.db" \notin out_files \/ "eclipse_info.db" \notin out_files
       THEN /\ rows' = <<>>
            /\ rd_pc' = "loaded"
       ELSE LET times == load_times(times_db)
            IN  IF LoadInfoRaises(info_db, Len(times))
                THEN /\ rows' = <<>>
                     /\ rd_pc' = "raised"
                ELSE /\ rows' = LET infos == load_info(kind, info_db, Len(times))
                                IN  [i \in 1..Len(times) |-> Row(kind, times[i], infos[i])]
                     /\ rd_pc' = "loaded"
    /\ open_handles' = WithOpen(open_handles)
    /\ UNCHANGED <<cal, build_vars, args, window, csv_out, hdr_vars, val_vars>>

Next ==
    \/ LoadAndSort \/ WriteTimes \/ WriteInfo \/ WriteSaros
    \/ LoadForHeaders \/ EmitSlice
    \/ LoadKind

Spec == Init /\ [][Next]_vars

\* ------------------------------------------------------------------------
\* check_sanity.py: inputs
\* ------------------------------------------------------------------------

\* Lines of the series files the gap checks are run on: at most this many
MaxVLines == 2

\* 0, then 18 years, the default threshold rounded down, one second more,
\* and 30 years later (years of 365.25 days)
VTsChoices == {0, 568036800, 853522628, 853522629, 946728000}

VRelChoices == {-1, 1, 2}

DateOf ==
    (0 :> "1970 Jan 01") @@ (568036800 :> "1988 Jan 01") @@ (853522628 :> "1997 Jan 17")
    @@ (853522629 :> "1997 Jan 17") @@ (946728000 :> "2000 Jan 01")

GoodRecord(rel, ts, date) ==
    ("rel_num" :> rel) @@ ("unix_timestamp" :> ts) @@ ("calendar_date" :> date)

Fields == {"rel_num", "unix_timestamp", "calendar_date"}

\* A well-formed JSON object without one of the fields
Without(e, field) == [f \in (DOMAIN e) \ {field} |-> e[f]]

WellFormedLines == {JsonLine(GoodRecord(r, t, DateOf[t])) : r \in VRelChoices, t \in VTsChoices}

GoodFile == VFile(<<JsonLine(GoodRecord(1, 0, "1970 Jan 01"))>>)

WellFormedFiles == UNION {{VFile(l) : l \in [1..n -> WellFormedLines]} : n \in 1..MaxVLines}

\* A series of five members, relative numbers 1, 2, 3, 5, 6, a year apart,
\* its lines in the order given
FiveMemberFile(order) ==
    VFile([i \in 1..5 |-> JsonLine(GoodRecord(order[i], 31557600 * order[i], "1970"))])

FiveMemberFiles == {FiveMemberFile(<<1, 2, 3, 5, 6>>), FiveMemberFile(<<5, 1, 6, 3, 2>>)}

\* A series with one contiguity defect and one spacing defect
DefectFile ==
    VFile(<< JsonLine(GoodRecord(1, 0, "1970 Jan 01")),
             JsonLine(GoodRecord(3, 946728000, "2000 Jan 01")) >>)

BadLines ==
    {Malformed} \cup
    {JsonLine(Without(GoodRecord(r, 568036800, "1988 Jan 01"), f)) : r \in {2, 4}, f \in Fields}

\* Files that are unreadable, empty, or hold a line that is not a full record
BadFiles ==
    {Unreadable, VFile(<<>>)}
    \cup {VFile(<<l>>) : l \in BadLines}
    \cup {VFile(<<JsonLine(GoodRecord(1, 0, "1970 Jan 01")), l>>) : l \in BadLines}

\* ROOT_DIR/<kind>: the numbered directories 1..181 and one that is not
\* numbered, each with or without an eclipses.jsonl
VDir(f120, f121, f181, others, tmp) ==
    [files |-> (120 :> f120) @@ (121 :> f121) @@ ((LAST_SAROS + 1) :> f181),
     rest |-> IF others THEN GoodFile ELSE VNoFile,
     tmp |-> tmp]

CompleteDir == VDir(GoodFile, GoodFile, VNoFile, TRUE, VNoFile)

OtherKindDirs ==
    { CompleteDir,
      VDir(VNoFile, GoodFile, VNoFile, TRUE, VNoFile),
      VDir(GoodFile, DefectFile, VNoFile, TRUE, VNoFile),
      VDir(VFile(<<>>), GoodFile, VNoFile, TRUE, VNoFile) }

\* build_db.py and export_csv.py are not run
NothingBuilt ==
    /\ kind = "solar"
    /\ data_dir = ("1" :> NoFile) @@ ("120" :> NoFile) @@ ("181" :> NoFile)
                  @@ ("tmp" :> TmpDir("solar"))
    /\ listing \in Listings(data_dir)
    /\ NoBuild
    /\ NoExport
    /\ NoHeaders
    /\ NoHandles

NotStarted ==
    /\ v_pc = "start"
    /\ v_kinds = <<>>
    /\ errors = 0
    /\ missing = <<>>
    /\ rel_gap_errors = <<>>
    /\ time_gap_errors = <<>>
    /\ total_errors = 0
    /\ exit_status = None

\* One series of well-formed records in any order, and one more series
VInitGaps ==
    /\ v_args \in [kind : {"solar"}, max_gap : {DEFAULT_MAX_GAP, 190000}]
    /\ \E f \in WellFormedFiles \cup FiveMemberFiles :
          v_dirs = [solar |-> VDir(f, GoodFile, VNoFile, FALSE, VNoFile), lunar |-> CompleteDir]
    /\ NotStarted

\* Series present or not; one series file that may be bad, and one after it
VInitFiles ==
    /\ v_args \in [kind : {"solar", "lunar", "both"}, max_gap : {DEFAULT_MAX_GAP}]
    /\ \E f120 \in BadFiles \cup {VNoFile, GoodFile}, f121 \in {GoodFile, DefectFile},
          f181 \in {VNoFile, GoodFile}, others \in BOOLEAN, tmp \in {VNoFile, GoodFile},
          other \in OtherKindDirs :
          v_dirs = [solar |-> VDir(f120, f121, f181, others, tmp), lunar |-> other]
    /\ NotStarted

ValidatorInit == NothingBuilt /\ NoCalendar /\ (VInitGaps \/ VInitFiles)

\* ------------------------------------------------------------------------
\* Actions of check_sanity.py
\* ------------------------------------------------------------------------

\* main, lines 116-119
ParseArgs ==
    /\ v_pc = "start"
    /\ v_kinds' = KindsToCheck(v_args)
    /\ total_errors' = 0
    /\ v_pc' = "main_loop"
    /\ UNCHANGED <<cal, build_vars, exp_vars, hdr_vars, open_handles>>
    /\ UNCHANGED <<v_args, v_dirs, errors, missing, rel_gap_errors, time_gap_errors, exit_status>>

\* main, line 125, and check_series, lines 30-47: the coverage check
CheckCoverage ==
    /\ v_pc = "main_loop"
    /\ v_kinds # <<>>
    /\ missing' = missing_series(v_dirs[Head(v_kinds)])
    /\ errors' = Len(missing')
    /\ rel_gap_errors' = <<>>
    /\ time_gap_errors' = <<>>
    /\ v_pc' = "covered"
    /\ UNCHANGED <<cal, build_vars, exp_vars, hdr_vars, open_handles>>
    /\ UNCHANGED <<v_args, v_dirs, v_kinds, total_errors, exit_status>>

\* check_series, lines 49-86: the loop over the files.  An exception that is
\* not caught ends the run, with a traceback and status 1.
CheckFiles ==
    /\ v_pc = "covered"
    /\ LET found == ScanFiles(v_dirs[Head(v_kinds)], MaxGapSecs(v_args.max_gap))
       IN  IF found.aborted
           THEN /\ v_pc' = "aborted"
                /\ exit_status' = Some(1)
                /\ UNCHANGED <<errors, rel_gap_errors, time_gap_errors>>
           ELSE /\ v_pc' = "scanned"
                /\ errors' = errors + found.file_errors
                /\ rel_gap_errors' = found.rel
                /\ time_gap_errors' = found.time
                /\ UNCHANGED exit_status
    /\ \E finalised \in BOOLEAN :
          open_handles' = NeverClosed(open_handles,
                                      OpenedByScan(v_dirs[Head(v_kinds)], MaxGapSecs(v_args.max_gap)),
                                      finalised)
    /\ UNCHANGED <<cal, build_vars, exp_vars, hdr_vars>>
    /\ UNCHANGED <<v_args, v_dirs, v_kinds, missing, total_errors>>

\* check_series, lines 88-104, and main, lines 125-128
ReportAndReturn ==
    /\ v_pc = "scanned"
    /\ errors' = errors + Len(rel_gap_errors) + Len(time_gap_errors)
    /\ total_errors' = total_errors + errors'
    /\ v_kinds' = Tail(v_kinds)
    /\ v_pc' = "main_loop"
    /\ UNCHANGED <<cal, build_vars, exp_vars, hdr_vars, open_handles>>
    /\ UNCHANGED <<v_args, v_dirs, missing, rel_gap_errors, time_gap_errors, exit_status>>

\* main, lines 130-135
Exit ==
    /\ v_pc = "main_loop"
    /\ v_kinds = <<>>
    /\ exit_status' = Some(ExitStatusOf(total_errors))
    /\ v_pc' = "exited"
    /\ UNCHANGED <<cal, build_vars, exp_vars, hdr_vars, open_handles>>
    /\ UNCHANGED <<v_args, v_dirs, v_kinds, errors, missing, rel_gap_errors,
                   time_gap_errors, total_errors>>

ValidatorNext == ParseArgs \/ CheckCoverage \/ CheckFiles \/ ReportAndReturn \/ Exit

ValidatorSpec == ValidatorInit /\ [][ValidatorNext]_vars

\* ------------------------------------------------------------------------
\* export_csv.py: inputs
\* ------------------------------------------------------------------------

\* "1970-05-31", day 150 of the epoch, and "1970-09-08", day 250
May31 == <<"1", "9", "7", "0", "-", "0", "5", "-", "3", "1">>

Sep08 == <<"1", "9", "7", "0", "-", "0", "9", "-", "0", "8">>

\* What the positional arguments start and end may be: absent, a date, a
\* date without leading zeros, a text that is no date
DateArgs ==
    { None, Some(May31), Some(Sep08),
      Some(<<"1", "9", "7", "0", "-", "9", "-", "8">>),
      Some(<<"1", "9", "7", "0", "-", "0", "9">>) }

\* end is the second positional argument: it is given only when start is;
\* output is the third
ExportArgs ==
    { a \in [start : DateArgs, end : DateArgs, output : {None, Some("out.csv")},
             solar : BOOLEAN, lunar : BOOLEAN] :
        /\ a.start = None => a.end = None
        /\ a.end = None => a.output = None }

\* The timestamps of the lines of one series file: the days 100, 200, 200,
\* 300; the seconds 100, 200, 200, 300; the seconds around the first of day
\* 150 and the last of day 250, with ties, in and out of time order
QueryCatalogs ==
    { <<8640000, 17280000, 17280000, 25920000>>,
      <<100, 200, 200, 300>>,
      <<12959999, 12960000, 21686399, 21686400>>,
      <<21686399, 12960000, 21686400, 12960000>>,
      <<21686399, 21686399, 12959999, 17280000>> }

QueryRecord(k, ts) ==
    [(CHOOSE r \in PlainRecords(k) : r.unix_timestamp = 200) EXCEPT !["unix_timestamp"] = ts]

\* db/<kind> after build(kind) has run on one series file; the other kind
\* has no db
ExportInit ==
    /\ kind \in Kinds
    /\ \E tss \in QueryCatalogs :
          data_dir = ("1" :> File([i \in 1..Len(tss) |-> QueryRecord(kind, tss[i])]))
                     @@ ("120" :> NoFile) @@ ("181" :> NoFile) @@ ("tmp" :> TmpDir(kind))
    /\ listing \in Listings(data_dir)
    /\ pc = "done"
    /\ eclipses = SortByTimestamp(load_eclipses(data_dir, listing))
    /\ saros_index_map = BuildIndexMap(eclipses, Len(eclipses))
    /\ out_files = {"eclipse_times.db", "eclipse_info.db", "saros.db"}
    /\ times_db = TimesBytes(eclipses)
    /\ info_db = InfoBytes(kind, eclipses)
    /\ saros_db = SarosLoop(saros_index_map, 1, LAST_SAROS).bytes
    /\ rd_pc = "idle"
    /\ rows = <<>>
    /\ args \in ExportArgs
    /\ window = [ts_start |-> None, ts_end |-> None]
    /\ csv_out = None
    /\ NoCalendar
    /\ NoHeaders
    /\ NoHandles
    /\ NoValidation

\* ------------------------------------------------------------------------
\* Actions of export_csv.py's main
\* ------------------------------------------------------------------------

\* main, lines 211-215: a _parse_date that raises ends the run
ParseDates ==
    /\ rd_pc = "idle"
    /\ LET s == IF args.start # None THEN parse_date(args.start[1]) ELSE [ok |-> TRUE, val |-> 0]
           e == IF args.end # None THEN parse_date(args.end[1]) ELSE [ok |-> TRUE, val |-> 0]
       IN  IF ~s.ok \/ ~e.ok
           THEN /\ rd_pc' = "raised"
                /\ UNCHANGED window
           ELSE /\ rd_pc' = "parsed"
                /\ window' = [ts_start |-> IF args.start # None THEN Some(s.val) ELSE None,
                              ts_end |-> IF args.end # None THEN Some(EndOfDay(e.val)) ELSE None]
    /\ UNCHANGED <<cal, build_vars, rows, args, csv_out, hdr_vars, val_vars, open_handles>>

\* main, lines 217-221: load_kind for each of kinds, then the sort.  Only
\* db/<kind> exists: load_kind of the other kind warns and returns [].
LoadRows ==
    /\ rd_pc = "parsed"
    /\ LET times == load_times(times_db)
           mine == \E i \in 1..Len(ExportKinds(args)) : ExportKinds(args)[i] = kind
       IN  IF ~mine
           THEN /\ rows' = <<>>
                /\ rd_pc' = "sorted"
           ELSE IF LoadInfoRaises(info_db, Len(times))
           THEN /\ rows' = <<>>
                /\ rd_pc' = "raised"
           ELSE /\ rows' = LET infos == load_info(kind, info_db, Len(times))
                           IN  SortByTs([i \in 1..Len(times) |-> Row(kind, times[i], infos[i])])
                /\ rd_pc' = "sorted"
    /\ open_handles' = WithOpen(open_handles)
    /\ UNCHANGED <<cal, build_vars, args, window, csv_out, hdr_vars, val_vars>>

\* main, lines 223-226
Filter ==
    /\ rd_pc = "sorted"
    /\ rows' = FilterRows(rows, window.ts_start, window.ts_end)
    /\ rd_pc' = "filtered"
    /\ UNCHANGED <<cal, build_vars, args, window, csv_out, hdr_vars, val_vars, open_handles>>

\* main, lines 228-243: out is the file args.output names, opened here, or
\* sys.stdout; the header line and the rows are written; the file is closed.
\* open() may raise, and so may a write, at any line (OSError: no such
\* directory, no space left, a closed pipe): the exception leaves main, and
\* the close of line 241 is not reached.
WriteCsv ==
    /\ rd_pc = "filtered"
    /\ LET lines == CsvLines(rows)
           to_file == args.output # None
       IN  \/ /\ to_file
              /\ rd_pc' = "raised"
              /\ UNCHANGED <<csv_out, open_handles>>
           \/ \E failing \in 1..Len(lines) :
                 /\ rd_pc' = "raised"
                 /\ csv_out' = Some(SubSeq(lines, 1, failing - 1))
                 /\ open_handles' = IF to_file THEN Opened(open_handles) ELSE open_handles
           \/ /\ rd_pc' = "written"
              /\ csv_out' = Some(lines)
              /\ open_handles' = IF to_file THEN Closed(Opened(open_handles)) ELSE open_handles
    /\ UNCHANGED <<cal, build_vars, rows, args, window, hdr_vars, val_vars>>

ExportNext == ParseDates \/ LoadRows \/ Filter \/ WriteCsv

ExportSpec == ExportInit /\ [][ExportNext]_vars

\* ------------------------------------------------------------------------
\* export_csv.py: the calendar conversions on their own
\* ------------------------------------------------------------------------

\* Years of the range the catalogs cover, negative ones, year 0, century and
\* leap years, and the years around the epoch
CalYears == {-1999, -4, -1, 0, 1, 1900, 1969, 1970, 2000, 2037, 2100, 2999}

CalSeconds == {0, 1, 3599, 3600, 43199, 86399}

\* The proleptic Gregorian calendar
IsLeap(y) == y % 4 = 0 /\ (y % 100 # 0 \/ y % 400 = 0)

DaysInMonth(y, m) ==
    IF m = 2 THEN (IF IsLeap(y) THEN 29 ELSE 28)
    ELSE IF m \in {4, 6, 9, 11} THEN 30 ELSE 31

CalDates == {date \in CalYears \X (1..12) \X (1..31) : date[3] <= DaysInMonth(date[1], date[2])}

\* Python's integers have no width; the model checker's have 32 bits, which
\* hold the timestamps of the days -24855..24854 (1901 to 2038).
Holds32(days) == -24855 <= days /\ days <= 24854

CalendarInit ==
    /\ NothingBuilt
    /\ NoValidation
    /\ cal \in [pc : {"given"}, date : CalDates, secs : CalSeconds]

\* _gregorian_to_unix(year, month, day) + secs.  The timestamp is kept as the
\* number of its day and the second of the day (it is days * 86400 + secs),
\* and as the number itself where that holds in 32 bits.
Encode ==
    /\ cal.pc = "given"
    /\ LET days == gregorian_to_days(cal.date[1], cal.date[2], cal.date[3])
       IN  cal' = [pc |-> "encoded", date |-> cal.date, secs |-> cal.secs, days |-> days,
                   ts |-> IF Holds32(days)
                          THEN Some(gregorian_to_unix(cal.date[1], cal.date[2], cal.date[3])
                                    + cal.secs)
                          ELSE None]
    /\ UNCHANGED <<build_vars, exp_vars, hdr_vars, val_vars, open_handles>>

\* _unix_to_gregorian of the timestamp.  Of a timestamp days * 86400 + secs
\* with 0 <= secs < 86400, lines 90-91 compute days and secs.
Decode ==
    /\ cal.pc = "encoded"
    /\ cal' = [pc |-> "decoded", date |-> cal.date, secs |-> cal.secs, days |-> cal.days,
               ts |-> cal.ts,
               back |-> IF cal.ts # None THEN unix_to_gregorian(cal.ts[1])
                        ELSE CivilOf(cal.days, cal.secs)]
    /\ UNCHANGED <<build_vars, exp_vars, hdr_vars, val_vars, open_handles>>

CalendarNext == Encode \/ Decode

CalendarSpec == CalendarInit /\ [][CalendarNext]_vars

\* ------------------------------------------------------------------------
\* The tables as a reader of the layouts sees them
\* ------------------------------------------------------------------------

\* Number of records of eclipse_times.db
TimeCount == Len(times_db) \div TIMES_RECORD_SIZE

\* Time[i], i from 0
Time(i) == TIMES_RECORD_unpack_from(times_db, i * TIMES_RECORD_SIZE)

InfoCount == Len(info_db) \div INFO_RECORD_SIZE

\* Bytes [6], [7], [8] of an eclipse_info_t, the same in both layouts
InfoSarosNumber(i) == info_db[i * INFO_RECORD_SIZE + 7]

InfoSarosPos(i) == info_db[i * INFO_RECORD_SIZE + 8]

InfoEclType(i) == info_db[i * INFO_RECORD_SIZE + 9]

\* Slot n (from 0) of saros.db: uint8 count, uint8 _pad, uint16 indices[]
SlotsWritten == Len(saros_db) \div SAROS_ENTRY_SIZE

SlotCount(n) == saros_db[n * SAROS_ENTRY_SIZE + 1]

SlotIndex(n, k) == UnpackU16(saros_db, n * SAROS_ENTRY_SIZE + 2 + 2 * k)

\* The sum of the counts of slots lo..hi
RECURSIVE SumCounts(_, _)
SumCounts(lo, hi) ==
    IF lo > hi THEN 0
    ELSE IF lo = hi THEN SlotCount(lo)
    ELSE SumCounts(lo, (lo + hi) \div 2) + SumCounts(((lo + hi) \div 2) + 1, hi)

\* The places <<slot, rank>> where global index g is listed
Occurrences(g) ==
    UNION { {<<n, k>> : k \in {j \in 0..(SlotCount(n) - 1) : SlotIndex(n, j) = g}} :
            n \in 0..(SlotsWritten - 1) }

\* build(kind) has run to its end and written the catalog
Built == pc = "done"

\* The series files hold some series whose lines are not in time order
SomeFileOutOfOrder ==
    \E name \in DOMAIN data_dir \cap DOMAIN NameInt :
        LET lines == data_dir[name].lines
        IN  \E i \in 1..(Len(lines) - 1) : lines[i].unix_timestamp > lines[i + 1].unix_timestamp

\* ------------------------------------------------------------------------
\* Claims
\* ------------------------------------------------------------------------

\* C1: in every catalog build(kind) writes, the TimeTable is non-decreasing:
\* Time[i] <= Time[i+1] for all i in 0..total-2 (equal timestamps allowed).
\* The table holds one timestamp per loaded record.
C1_TimeTableNonDecreasing ==
    pc \in {"times_written", "info_written", "done", "failed"} =>
        /\ TimeCount = Len(load_eclipses(data_dir, listing))
        /\ \A i \in 0..(TimeCount - 2) : Time(i) <= Time(i + 1)

\* C1 witness: a written TimeTable of three records with a tie and a strict
\* step, from series files that were not in time order.
C1_Witness ==
    /\ Built
    /\ TimeCount = 3
    /\ Time(0) < Time(1) /\ Time(1) = Time(2)
    /\ SomeFileOutOfOrder

\* C2 (as claimed): whatever numbered series directories exist, the 180 slot
\* lists, each cut to its count, partition 0..total-1: every global index is
\* in exactly one slot's list, once.
C2_SlotsPartitionIndices ==
    Built =>
        /\ SlotsWritten = LAST_SAROS
        /\ \A g \in 0..(TimeCount - 1) : Cardinality(Occurrences(g)) = 1
        /\ \A n \in 0..(SlotsWritten - 1) :
              \A k \in 0..(SlotCount(n) - 1) : SlotIndex(n, k) \in 0..(TimeCount - 1)

\* C3 (as claimed): the slot counts sum to the number of loaded eclipses, which
\* is the number of TimeTable records and of InfoTable records; and load_kind
\* returns one row per TimeTable record, row i pairing Time[i] with Info[i].
C3_CountsAgree ==
    Built =>
        /\ SumCounts(0, SlotsWritten - 1) = Len(load_eclipses(data_dir, listing))
        /\ TimeCount = Len(load_eclipses(data_dir, listing))
        /\ InfoCount = TimeCount
        /\ rd_pc # "raised"
        /\ rd_pc = "loaded" =>
              /\ Len(rows) = TimeCount
              /\ \A i \in 0..(TimeCount - 1) :
                    /\ rows[i + 1].ts = Time(i)
                    /\ rows[i + 1].saros_number = InfoSarosNumber(i)

\* C4: in every slot of a built SeriesIndex the first count indices are
\* strictly ascending, and the timestamps they refer to are non-decreasing.
C4_SlotAscending ==
    Built =>
        \A n \in 0..(SlotsWritten - 1) :
            \A k \in 0..(SlotCount(n) - 2) :
                /\ SlotIndex(n, k) < SlotIndex(n, k + 1)
                /\ SlotIndex(n, k + 1) < TimeCount
                /\ Time(SlotIndex(n, k)) <= Time(SlotIndex(n, k + 1))

\* C4 witness: a slot of three members, over a tie and a strict step, whose
\* series file was not in time order.
C4_Witness ==
    /\ Built
    /\ SomeFileOutOfOrder
    /\ \E n \in 0..(SlotsWritten - 1) :
          /\ SlotCount(n) = 3
          /\ Time(SlotIndex(n, 0)) < Time(SlotIndex(n, 1))
          /\ Time(SlotIndex(n, 1)) = Time(SlotIndex(n, 2))

\* C5 (as claimed): whatever the order of a file's lines, the saros_position in
\* the InfoTable is the record's rank in its series by timestamp: the k-th index
\* of the series' slot refers to the record with saros_position k.
C5_PositionIsRankByTime ==
    Built =>
        \A n \in 0..(SlotsWritten - 1) :
            \A k \in 0..(SlotCount(n) - 1) :
                InfoSarosPos(SlotIndex(n, k)) = k

\* The kind's enumeration, on the builder's side and on the reader's
KindTypeMap(k) == IF k = "solar" THEN SOLAR_ECL_TYPE_MAP ELSE LUNAR_ECL_TYPE_MAP

KindTypeNames(k) == IF k = "solar" THEN SOLAR_TYPE_NAMES ELSE LUNAR_TYPE_NAMES

\* The 10 bytes of InfoTable record i (from 0)
InfoRaw(i) == SubSeq(info_db, i * INFO_RECORD_SIZE + 1, (i + 1) * INFO_RECORD_SIZE)

\* The duration fields of record i as encoded: [4-5] for solar, [0-1], [2-3],
\* [4-5] for lunar
EncodedDurations(k, i) ==
    IF k = "solar" THEN <<SOLAR_INFO_REC_unpack(InfoRaw(i)).dur>>
    ELSE LET u == LUNAR_INFO_REC_unpack(InfoRaw(i)) IN <<u.pen, u.par, u.tot>>

\* The same fields of the input record, each None or present
InputDurations(k, e) ==
    IF k = "solar" THEN <<e.central_duration>>
    ELSE <<e.pen_duration_m, e.par_duration_m, e.total_duration_m>>

\* The input record with its durations absent
WithoutDurations(k, e) ==
    IF k = "solar" THEN [e EXCEPT !.central_duration = None]
    ELSE [e EXCEPT !.pen_duration_m = None, !.par_duration_m = None, !.total_duration_m = None]

\* The durations of the input record that are present are durations: a solar
\* "XmYs" that parses, and no negative value
DurationsAreValues(k, e) ==
    \A f \in 1..Len(InputDurations(k, e)) :
        LET d == InputDurations(k, e)[f]
        IN  d # None =>
                IF k = "solar"
                THEN CentralDurationSeconds(d[1]).ok /\ CentralDurationSeconds(d[1]).val >= 0
                ELSE d[1] >= 0

\* C6 (as claimed): for both kinds a record whose type code is not in the
\* kind's enumeration halts the build: no InfoTable record is written for it,
\* and the build does not get past the InfoTable.
C6_UnmappedTypeIsFatal ==
    \A i \in 1..Len(eclipses) :
        eclipses[i].ecl_type \notin DOMAIN KindTypeMap(kind) =>
            /\ InfoCount < i
            /\ pc \notin {"info_written", "done"}

\* C7 (as claimed): in every InfoTable record written, an absent duration is
\* 0xFFFF and a present one, whatever its magnitude, is in [0, 0xFFFE]; and a
\* duration's magnitude never makes the build fail.
C7_DurationsClamped ==
    /\ \A i \in 0..(InfoCount - 1) :
          pc \in {"info_written", "done", "failed"} =>
              \A f \in 1..Len(EncodedDurations(kind, i)) :
                  IF InputDurations(kind, eclipses[i + 1])[f] = None
                  THEN EncodedDurations(kind, i)[f] = SENTINEL
                  ELSE EncodedDurations(kind, i)[f] \in 0..CLAMP_MAX
    /\ (pc = "failed" /\ InfoCount < Len(eclipses)) =>
          LET e == eclipses[InfoCount + 1]
          IN  ~(DurationsAreValues(kind, e) /\ pack_info(kind, WithoutDurations(kind, e)).ok)

\* The seconds a present duration stands for
DurationSeconds(k, d) ==
    IF k = "solar" THEN CentralDurationSeconds(d[1]).val ELSE PyRound(d[1] * 60, 100)

SunAltValues == {v[1] : v \in SunAltChoices \ {None}}

\* C8 (as claimed): unpacking a written InfoTable record gives back every field
\* of the record it was packed from, and a field that was absent decodes to
\* something no present value decodes to.
C8_RoundTrip ==
    pc \in {"info_written", "done", "failed"} =>
        \A i \in 0..(InfoCount - 1) :
            LET e == eclipses[i + 1]
            IN  /\ InfoSarosNumber(i) = e.saros_number
                /\ InfoSarosPos(i) = e.saros_pos
                /\ InfoEclType(i) < Len(KindTypeNames(kind))
                /\ KindTypeNames(kind)[InfoEclType(i) + 1] = e.ecl_type
                /\ \A f \in 1..Len(EncodedDurations(kind, i)) :
                      LET d == InputDurations(kind, e)[f]
                      IN  IF d = None
                          THEN EncodedDurations(kind, i)[f] = SENTINEL
                          ELSE /\ EncodedDurations(kind, i)[f] # SENTINEL
                               /\ EncodedDurations(kind, i)[f] = DurationSeconds(kind, d)
                /\ kind = "solar" =>
                      LET u == SOLAR_INFO_REC_unpack(InfoRaw(i))
                      IN  /\ u.lat = PyRound(e.latitude_deg, 10)
                          /\ u.lon = PyRound(e.longitude_deg, 10)
                          /\ IF e.sun_alt = None THEN u.alt \notin SunAltValues
                             ELSE u.alt = e.sun_alt[1]

\* C9: for each kind the builder's map is a bijection onto 0..N-1 (19 solar
\* codes, 13 lunar) and the reader's table is its inverse; so a record of a
\* built catalog whose type is in the enumeration is read back with its type.
C9_TypeTablesInverse ==
    /\ \A k \in Kinds :
          LET map == KindTypeMap(k)
              names == KindTypeNames(k)
              N == IF k = "solar" THEN 19 ELSE 13
          IN  /\ Cardinality(DOMAIN map) = N
              /\ Len(names) = N
              /\ \A c \in DOMAIN map : map[c] \in 0..(N - 1) /\ names[map[c] + 1] = c
              /\ \A j \in 0..(N - 1) : names[j + 1] \in DOMAIN map /\ map[names[j + 1]] = j
    /\ (Built /\ rd_pc = "loaded") =>
          \A i \in 1..Len(rows) :
              eclipses[i].ecl_type \in DOMAIN KindTypeMap(kind) =>
                  rows[i].type = <<Prefix(kind), eclipses[i].ecl_type>>

\* C9 witness: a solar record of the last code, "Ts", built and read back.
C9_Witness ==
    /\ Built /\ rd_pc = "loaded" /\ kind = "solar"
    /\ Len(rows) = 1
    /\ eclipses[1].ecl_type = "Ts"
    /\ InfoEclType(0) = 18
    /\ rows[1].type = <<"S", "Ts">>

\* C10: load_kind does not fail on an InfoTable record whose type byte is
\* outside the kind's enumeration: the row's type name is none of the kind's
\* codes, and its timestamp and saros number are decoded all the same.
C10_UnknownTypeDecodes ==
    (/\ rd_pc # "idle"
     /\ {"eclipse_times.db", "eclipse_info.db"} \subseteq out_files
     /\ InfoCount >= TimeCount) =>
        /\ rd_pc = "loaded"
        /\ Len(rows) = TimeCount
        /\ \A i \in 0..(TimeCount - 1) :
              InfoEclType(i) >= Len(KindTypeNames(kind)) =>
                  /\ rows[i + 1].type[1] = Prefix(kind)
                  /\ rows[i + 1].type[2] \notin DOMAIN KindTypeMap(kind)
                  /\ \A j \in 1..Len(KindTypeNames(kind)) :
                        rows[i + 1].type[2] # KindTypeNames(kind)[j]
                  /\ rows[i + 1].ts = Time(i)
                  /\ rows[i + 1].saros_number = InfoSarosNumber(i)

\* C10 witness: a solar catalog read with type byte 255 in one record and the
\* first code past the enumeration, 19, in the other.
C10_Witness ==
    /\ rd_pc = "loaded" /\ kind = "solar"
    /\ Len(rows) = 2
    /\ InfoEclType(0) = 19 /\ rows[1].type = <<"S", "19">>
    /\ InfoEclType(1) = 255 /\ rows[2].type = <<"S", "255">>
    /\ rows[2].saros_number = 120 /\ rows[2].ts = 200

\* The bytes of slot n (from 0) past its first count indices
SlotTail(n) ==
    SubSeq(saros_db, n * SAROS_ENTRY_SIZE + 2 + 2 * SlotCount(n) + 1,
           (n + 1) * SAROS_ENTRY_SIZE)

\* The global indices of the InfoTable records of saros number sn
SeriesMembers(sn) == {g \in 0..(InfoCount - 1) : InfoSarosNumber(g) = sn}

\* C11: the SeriesIndex a build writes has exactly 180 slots of
\* 2 + 2 * capacity bytes, slot n for saros number n + 1; the first count
\* indices of a slot are the global indices of the series' records, every
\* index position from count up to the capacity is 0, and a saros number
\* without records has count 0 and only zeros.
C11_SeriesIndexShape ==
    Built =>
        /\ Len(saros_db) = LAST_SAROS * SAROS_ENTRY_SIZE
        /\ \A n \in 0..(LAST_SAROS - 1) :
              /\ SlotCount(n) = Cardinality(SeriesMembers(n + 1))
              /\ SlotCount(n) <= MAX_ECLIPSES_PER_SAROS
              /\ {SlotIndex(n, k) : k \in 0..(SlotCount(n) - 1)} = SeriesMembers(n + 1)
              /\ SlotTail(n) = SubSeq(ZeroBytes, 1, 2 * (MAX_ECLIPSES_PER_SAROS - SlotCount(n)))
              /\ SeriesMembers(n + 1) = {} =>
                    SubSeq(saros_db, n * SAROS_ENTRY_SIZE + 1, (n + 1) * SAROS_ENTRY_SIZE)
                        = <<0, 0>> \o ZeroBytes

\* C11 witness: a written SeriesIndex with a slot of two members that are not
\* global index 0, a slot of one member, and empty slots around them.
C11_Witness ==
    /\ Built
    /\ SlotCount(0) = 1 /\ SlotCount(1) = 0 /\ SlotCount(119) = 2 /\ SlotCount(179) = 0
    /\ SlotIndex(119, 0) > 0

\* ------------------------------------------------------------------------
\* The headers as a reader of their arrays sees them
\* ------------------------------------------------------------------------

HeaderArray(table, label) == headers[HeaderFile(table, label)].array

HeaderSlots(label) == Len(HeaderArray("saros", label)) \div SAROS_ENTRY_SIZE

HeaderSlotCount(label, n) == HeaderArray("saros", label)[n * SAROS_ENTRY_SIZE + 1]

HeaderSlotIndex(label, n, k) ==
    UnpackU16(HeaderArray("saros", label), n * SAROS_ENTRY_SIZE + 2 + 2 * k)

HeaderTime(label, i) ==
    TIMES_RECORD_unpack_from(HeaderArray("eclipse_times", label), i * TIMES_RECORD_SIZE)

\* The places <<slot, rank>> where the slice's index g is listed
HeaderOccurrences(label, g) ==
    UNION { {<<n, k>> : k \in {j \in 0..(HeaderSlotCount(label, n) - 1) :
                                  HeaderSlotIndex(label, n, j) = g}} :
            n \in 0..(HeaderSlots(label) - 1) }

\* The slice is a catalog of its own over saros numbers first..last
SliceStandalone(label, first, last) ==
    LET n == headers[HeaderFile("eclipse_times", label)].COUNT
        s == headers[HeaderFile("saros", label)]
    IN  /\ Len(HeaderArray("eclipse_times", label)) = n * TIMES_RECORD_SIZE
        /\ Len(HeaderArray("eclipse_info", label)) = n * INFO_RECORD_SIZE
        /\ \A i \in 0..(n - 2) : HeaderTime(label, i) <= HeaderTime(label, i + 1)
        /\ s.SAROS_FIRST = first /\ s.SAROS_LAST = last
        /\ HeaderSlots(label) = last - first + 1
        /\ \A g \in 0..(n - 1) : Cardinality(HeaderOccurrences(label, g)) = 1
        /\ \A sl \in 0..(HeaderSlots(label) - 1) :
              \A k \in 0..(HeaderSlotCount(label, sl) - 1) :
                  HeaderSlotIndex(label, sl, k) \in 0..(n - 1)

\* C12 (as claimed): every slice build_headers emits, "all" (saros 1..180)
\* and "modern" (saros 110..173), is a catalog of its own: its TimeTable is
\* non-decreasing, its indices are 0..n-1, its SeriesIndex has one slot per
\* saros number of its range, and the slots partition 0..n-1.
C12_SlicesStandalone ==
    hdr_pc = "done" =>
        /\ SliceStandalone("all", 1, 180)
        /\ SliceStandalone("modern", 110, 173)

AllTablesWritten ==
    /\ {"eclipse_times.db", "eclipse_info.db", "saros.db"} \subseteq out_files
    /\ Len(times_db) = Len(eclipses) * TIMES_RECORD_SIZE
    /\ Len(info_db) = Len(eclipses) * INFO_RECORD_SIZE
    /\ Len(saros_db) = LAST_SAROS * SAROS_ENTRY_SIZE

\* C14 (as claimed): when build(kind) has ended, by returning or by raising,
\* it has either written all of eclipse_times.db, eclipse_info.db and saros.db
\* completely or (having found no data) touched none of them.
C14_AllOrNothing ==
    BuildEnded => (pc = "skipped" \/ AllTablesWritten)

\* ------------------------------------------------------------------------
\* The series files as the validator's contract describes them
\* ------------------------------------------------------------------------

\* The directory check_series is checking
CheckedDir == v_dirs[Head(v_kinds)]

\* The saros numbers of 1..180 without a file
AbsentSeries(dir) == {sn \in 1..LAST_SAROS : ~SeriesFile(dir, sn).exists}

\* The numbered directories whose file exists and cannot be read or parsed,
\* or is empty
UnreadableOrEmpty(dir) ==
    {sn \in 1..(LAST_SAROS + 1) :
        LET f == SeriesFile(dir, sn)
        IN  f.exists /\ (~f.readable \/ f.lines = <<>> \/ \E i \in 1..Len(f.lines) : ~f.lines[i].json)}

\* The numbered directories whose file is read and parsed and is not empty
ParsedSeries(dir) ==
    {sn \in 1..(LAST_SAROS + 1) : SeriesFile(dir, sn).exists} \ UnreadableOrEmpty(dir)

\* The records of a parsed file in relative-number order, records of equal
\* relative number in the order of their lines
InRelOrder(f) ==
    LET n == Len(f.lines)
        rel(i) == f.lines[i].obj["rel_num"]
        p == CHOOSE q \in [1..n -> 1..n] :
                 \A i, j \in 1..n :
                     i < j => (rel(q[i]) < rel(q[j]) \/ (rel(q[i]) = rel(q[j]) /\ q[i] < q[j]))
    IN  [i \in 1..n |-> f.lines[p[i]].obj]

\* <<sn, i>>: the i-th and (i+1)-th record of series sn, in that order
AdjacentPairs(dir) ==
    UNION { {<<sn, i>> : i \in 1..(Len(SeriesFile(dir, sn).lines) - 1)} : sn \in ParsedSeries(dir) }

ContiguityPairs(dir) ==
    { pr \in AdjacentPairs(dir) :
        LET r == InRelOrder(SeriesFile(dir, pr[1]))
        IN  r[pr[2] + 1]["rel_num"] - r[pr[2]]["rel_num"] # 1 }

\* The threshold in whole seconds: 27.0465 years are 853522628.4 s, 19 years
\* 599594400 s
ThresholdSeconds == (270465 :> 853522628) @@ (190000 :> 599594400)

SpacingPairs(dir, max_gap_years) ==
    { pr \in AdjacentPairs(dir) :
        LET r == InRelOrder(SeriesFile(dir, pr[1]))
        IN  r[pr[2] + 1]["unix_timestamp"] - r[pr[2]]["unix_timestamp"]
                > ThresholdSeconds[max_gap_years] }

\* The entries of a list of defects that are about series sn
DefectsOf(defects, sn) == SelectSeq(defects, LAMBDA d : d[1] = sn)

\* C15: the coverage check of check_series adds to the error count exactly
\* the number of saros numbers of 1..180 without a file, lists them, and
\* counts no error exactly when all 180 files are present.
C15_CoverageCount ==
    v_pc = "covered" =>
        /\ errors = Cardinality(AbsentSeries(CheckedDir))
        /\ Len(missing) = errors
        /\ {missing[i] : i \in 1..Len(missing)} = AbsentSeries(CheckedDir)
        /\ errors = 0 <=> \A sn \in 1..LAST_SAROS : SeriesFile(CheckedDir, sn).exists

\* C15 witness: the coverage check has run on a directory with every series
\* but 120, and with directories 181 and tmp: one error.
C15_Witness ==
    /\ v_pc = "covered"
    /\ errors = 1 /\ missing = <<120>>
    /\ SeriesFile(CheckedDir, LAST_SAROS + 1).exists
    /\ CheckedDir.tmp.exists

\* C16: when the loop over the files has ended, the contiguity defects
\* reported are as many as the adjacent pairs, in relative-number order,
\* whose difference is not +1 (0 and more than 1 alike); a series of relative
\* numbers 1, 2, 3, 5, 6 has exactly one, between 3 and 5.
C16_ContiguityDefects ==
    v_pc = "scanned" =>
        LET defects == ContiguityPairs(CheckedDir)
        IN  /\ Len(rel_gap_errors) = Cardinality(defects)
            /\ \A sn \in ParsedSeries(CheckedDir) :
                  LET r == InRelOrder(SeriesFile(CheckedDir, sn))
                      d == DefectsOf(rel_gap_errors, sn)
                  IN  /\ Len(d) = Cardinality({pr \in defects : pr[1] = sn})
                      /\ [i \in 1..Len(r) |-> r[i]["rel_num"]] = <<1, 2, 3, 5, 6>> =>
                            /\ Len(d) = 1
                            /\ d[1][2] = 2 /\ d[1][3] = 3 /\ d[1][5] = 5

\* C16 witness: the five-member series, its lines out of order, has been
\* checked and one defect is reported.
C16_Witness ==
    /\ v_pc = "scanned"
    /\ SeriesFile(CheckedDir, 120) = FiveMemberFile(<<5, 1, 6, 3, 2>>)
    /\ Len(rel_gap_errors) = 1

\* C17: when the loop over the files has ended, a spacing defect is reported
\* for an adjacent pair, in relative-number order, exactly when the later
\* timestamp minus the earlier exceeds the threshold; the default threshold
\* lies strictly between one Saros period (569015085.6 s) and two; with it,
\* two records 30 years apart give one defect and two records 18 years apart
\* none.
C17_SpacingDefects ==
    v_pc = "scanned" =>
        LET defects == SpacingPairs(CheckedDir, v_args.max_gap)
        IN  /\ Len(time_gap_errors) = Cardinality(defects)
            /\ 569015085 < MaxGapSecs(DEFAULT_MAX_GAP) /\ MaxGapSecs(DEFAULT_MAX_GAP) < 1138030171
            /\ \A sn \in ParsedSeries(CheckedDir) :
                  LET r == InRelOrder(SeriesFile(CheckedDir, sn))
                      d == DefectsOf(time_gap_errors, sn)
                      apart == r[2]["unix_timestamp"] - r[1]["unix_timestamp"]
                  IN  /\ Len(d) = Cardinality({pr \in defects : pr[1] = sn})
                      /\ (Len(r) = 2 /\ v_args.max_gap = DEFAULT_MAX_GAP) =>
                            /\ apart = 30 * 31557600 => Len(d) = 1
                            /\ apart = 18 * 31557600 => Len(d) = 0

\* C17 witness: under the default threshold, a series of two records 30
\* years apart has been checked, its later record first in the file, and one
\* defect is reported.
C17_Witness ==
    /\ v_pc = "scanned"
    /\ v_args.max_gap = DEFAULT_MAX_GAP
    /\ LET l == SeriesFile(CheckedDir, 120).lines
       IN  /\ Len(l) = 2
           /\ l[1].obj["unix_timestamp"] = 946728000 /\ l[1].obj["rel_num"] = 2
           /\ l[2].obj["unix_timestamp"] = 0 /\ l[2].obj["rel_num"] = 1
    /\ Len(time_gap_errors) = 1 /\ Len(rel_gap_errors) = 0

\* The numbered directories whose file is unreadable, empty, or holds a
\* line that is not JSON or a record without one of the three fields
BadSeries(dir) ==
    UnreadableOrEmpty(dir) \cup
    {sn \in ParsedSeries(dir) :
        \E i \in 1..Len(SeriesFile(dir, sn).lines) :
            \E f \in Fields : ~Has(SeriesFile(dir, sn).lines[i].obj, f)}

\* C18 (as claimed): check_series never ends in an exception; when its loop
\* over the files has ended it has counted one error for each file that is
\* unreadable, empty or holds a malformed record, a record without a
\* required field included.
C18_NeverAborts ==
    /\ v_pc # "aborted"
    /\ v_pc = "scanned" =>
          errors = Len(missing) + Cardinality(BadSeries(CheckedDir))

\* The defects of one kind: missing series, unreadable or empty files,
\* contiguity defects, spacing defects
DefectCount(k) ==
    Cardinality(AbsentSeries(v_dirs[k])) + Cardinality(UnreadableOrEmpty(v_dirs[k]))
    + Cardinality(ContiguityPairs(v_dirs[k]))
    + Cardinality(SpacingPairs(v_dirs[k], v_args.max_gap))

FirstSecond(date) == IF date = May31 THEN 150 * 86400 ELSE 250 * 86400

LastSecond(date) == IF date = May31 THEN 151 * 86400 - 1 ELSE 251 * 86400 - 1

\* The arguments are absent or dates of the days 150 and 250, written in full
PlainDates == {None, Some(May31), Some(Sep08)}

\* The catalog's records, in the order of the tables, within the window
RecordsWithin(a) ==
    SelectSeq([i \in 1..TimeCount |-> [ts |-> Time(i - 1), saros_number |-> InfoSarosNumber(i - 1)]],
              LAMBDA r : /\ a.start # None => FirstSecond(a.start[1]) <= r.ts
                         /\ a.end # None => r.ts <= LastSecond(a.end[1]))

\* The kind of the catalog is among those the flags select
KindSelected == (args.solar => kind = "solar") /\ ((~args.solar /\ args.lunar) => kind = "lunar")

\* C20: the rows left by the filter are exactly the catalog's records from
\* the first second of the start date to the last second of the end date,
\* both included, ties and records on either bound included; without
\* bounds every record is left; of records on the days 100, 200, 200, 300,
\* the window from day 150 to day 250 leaves the two of day 200.
C20_RangeInclusive ==
    (rd_pc = "filtered" /\ args.start \in PlainDates /\ args.end \in PlainDates /\ KindSelected) =>
        /\ [i \in 1..Len(rows) |-> [ts |-> rows[i].ts, saros_number |-> rows[i].saros_number]]
              = RecordsWithin(args)
        /\ (args.start = None /\ args.end = None) => Len(rows) = TimeCount
        /\ ( /\ [i \in 1..TimeCount |-> Time(i - 1)]
                    = <<100 * 86400, 200 * 86400, 200 * 86400, 300 * 86400>>
             /\ args.start = Some(May31) /\ args.end = Some(Sep08) ) =>
              [i \in 1..Len(rows) |-> rows[i].ts] = <<200 * 86400, 200 * 86400>>

\* C20 witness: from a catalog with two records at the first second of day
\* 150, one at the last second of day 250 and one a second later, the
\* window of the two days leaves the first three.
C20_Witness ==
    /\ rd_pc = "filtered"
    /\ args.start = Some(May31) /\ args.end = Some(Sep08)
    /\ [i \in 1..TimeCount |-> Time(i - 1)] = <<12960000, 12960000, 21686399, 21686400>>
    /\ [i \in 1..Len(rows) |-> rows[i].ts] = <<12960000, 12960000, 21686399>>


\* What build(kind) writes, run to its end, when os.listdir returns names
TablesOf(k, d, names) ==
    LET es == SortByTimestamp(load_eclipses(d, names))
    IN  [times |-> TimesBytes(es),
         info |-> InfoBytes(k, es),
         saros |-> SarosLoop(BuildIndexMap(es, Len(es)), 1, LAST_SAROS).bytes]

\* Records i and i+1 of the tables, of equal timestamps, are in ascending
\* saros_number, then in file line order
TieInOrder(i) ==
    \/ InfoSarosNumber(i) < InfoSarosNumber(i + 1)
    \/ /\ InfoSarosNumber(i) = InfoSarosNumber(i + 1)
       /\ InfoSarosPos(i) < InfoSarosPos(i + 1)

\* C21 (as claimed): a build of the same kind from the same series files writes
\* the same TimeTable, InfoTable and SeriesIndex bytes whatever order the
\* directory is listed in, and records of equal timestamps stand in ascending
\* saros_number, then in file line order.
C21_BuildDeterminism ==
    Built =>
        /\ \A names \in Listings(data_dir) :
               TablesOf(kind, data_dir, names) =
                   [times |-> times_db, info |-> info_db, saros |-> saros_db]
        /\ \A i \in 0..(TimeCount - 2) : Time(i) = Time(i + 1) => TieInOrder(i)


\* An operation that opens files has ended, by returning or by raising:
\* build and build_headers, load_kind and export_csv's main, check_series
OperationEnded ==
    \/ BuildEnded /\ hdr_pc \in {"idle", "skipped", "failed", "done"}
    \/ rd_pc \in {"loaded", "raised", "written"}
    \/ v_pc \in {"main_loop", "aborted", "exited"}

\* C22 (as claimed): when an operation of the validator, the builder or the
\* exporter has ended, on its success path or by an error, every file handle
\* it opened is closed.
C22_HandlesClosed == OperationEnded => open_handles = 0


\* blob is one record of size bytes for each saros number first..last, record
\* n at byte offset size * n: a count byte, which is the number of records of
\* es of saros number first + n, a pad byte, and capacity 16-bit indices, the
\* first count of which refer to records of that saros number
RecordsOfSize(blob, es, first, last, size, capacity) ==
    /\ size = 2 + 2 * capacity
    /\ Len(blob) = size * (last - first + 1)
    /\ \A n \in 0..(last - first) :
          LET count == blob[size * n + 1]
          IN  /\ count = Cardinality({i \in 1..Len(es) : es[i].saros_number = first + n})
              /\ count <= capacity
              /\ blob[size * n + 2] = 0
              /\ \A k \in 0..(count - 1) :
                    LET g == UnpackU16(blob, size * n + 2 + 2 * k)
                    IN  g < Len(es) /\ es[g + 1].saros_number = first + n

\* The saros tables that exist, saros.db and the arrays of saros_all.h and
\* saros_modern.h, are records of size bytes with capacity indices
SarosTablesOfSize(size, capacity) ==
    /\ Built => RecordsOfSize(saros_db, eclipses, 1, LAST_SAROS, size, capacity)
    /\ \A i \in 1..2 :
          LET sl == Slices(eclipses)[i]
          IN  HeaderFile("saros", sl.label) \in DOMAIN headers =>
                  RecordsOfSize(HeaderArray("saros", sl.label), sl.eclipses,
                                sl.s_start, sl.s_end, size, capacity)

C24_BackReferences ==
    Built =>
        LET loaded == load_eclipses(data_dir, listing)
        IN  \A s \in 0..(SlotsWritten - 1) :
                \A k \in 0..(SlotCount(s) - 1) :
                    LET i == SlotIndex(s, k)
                    IN  /\ i < TimeCount /\ i < InfoCount
                        /\ InfoSarosNumber(i) = s + 1
                        /\ \E j \in 1..Len(loaded) :
                              /\ loaded[j].saros_number = s + 1
                              /\ Time(i) = loaded[j].unix_timestamp
                              /\ InfoRaw(i) = pack_info(kind, loaded[j]).bytes

\* C24 witness: a built catalog of three records in two series, where the
\* series loaded first holds the latest record: the global indices are not in
\* load order.
C24_Witness ==
    /\ Built
    /\ TimeCount = 3
    /\ SlotCount(0) = 1 /\ SlotCount(119) = 2
    /\ SlotIndex(0, 0) = 2
    /\ Time(0) < Time(2)


\* The number of loaded records of saros number sn
SeriesLength(loaded, sn) == Cardinality({j \in 1..Len(loaded) : loaded[j].saros_number = sn})

\* Some series of 1..180 has more records than a slot holds
OverCapacity(loaded) ==
    \E sn \in 1..LAST_SAROS : SeriesLength(loaded, sn) > MAX_ECLIPSES_PER_SAROS

\* SAROS_ENTRY_RECORD.pack takes a list of indices exactly when each fits 16 bits
IndexWidthEnforced ==
    \A indices \in {<<0>>, <<65535>>, <<65536>>, <<7, 65535>>, <<7, 70000>>, <<131072>>} :
        SarosEntry((1 :> indices), 1).ok <=> \A k \in 1..Len(indices) : indices[k] <= 65535

\* C25: a build whose input has a series of more than 96 records ends by
\* failing, and never as built; saros.db holds whole slots only, and each slot
\* a build has written, to its end or until it failed, has a count of at most 96 that is the length of
\* its series, with indices that refer to records of that series (no count
\* over the capacity, no member list cut short, no index wrapped); an index
\* that does not fit 16 bits makes the pack of its slot raise.
C25_CapacityEnforced ==
    LET loaded == load_eclipses(data_dir, listing)
    IN  /\ OverCapacity(loaded) /\ BuildEnded => pc = "failed"
        /\ OverCapacity(loaded) => hdr_pc = "idle" /\ headers = <<>>
        /\ Len(saros_db) = SlotsWritten * SAROS_ENTRY_SIZE
        /\ pc \in {"failed", "done"} =>
              \A n \in 0..(SlotsWritten - 1) :
                  /\ SlotCount(n) <= MAX_ECLIPSES_PER_SAROS
                  /\ SlotCount(n) = SeriesLength(loaded, n + 1)
                  /\ \A k \in 0..(SlotCount(n) - 1) :
                        /\ SlotIndex(n, k) < Len(eclipses)
                        /\ eclipses[SlotIndex(n, k) + 1].saros_number = n + 1
        /\ IndexWidthEnforced

\* C25 witness: a build of a series 120 of 97 records has failed in the pack
\* of slot 120, after the 119 slots before it were written; the two other
\* tables hold all 98 records.
C25_Witness ==
    /\ pc = "failed"
    /\ OverCapacity(load_eclipses(data_dir, listing))
    /\ TimeCount = MAX_ECLIPSES_PER_SAROS + 2 /\ InfoCount = TimeCount
    /\ SlotsWritten = 119
    /\ SlotCount(0) = 1


\* C26: for every valid proleptic Gregorian date (year, month, day), negative
\* years included, and every second s of 0..86399,
\* _unix_to_gregorian(_gregorian_to_unix(year, month, day) + s) is
\* (year, month, day, hh, mm, ss) with s = hh * 3600 + mm * 60 + ss and a time
\* of day within 00:00:00..23:59:59; a negative timestamp decodes to the day it
\* falls in.
C26_CalendarRoundTrip ==
    cal.pc = "decoded" =>
        /\ <<cal.back.year, cal.back.month, cal.back.day>> = cal.date
        /\ cal.back.hh * 3600 + cal.back.mm * 60 + cal.back.ss = cal.secs
        /\ cal.back.hh \in 0..23 /\ cal.back.mm \in 0..59 /\ cal.back.ss \in 0..59
        /\ cal.ts # None => DayAndSecond(cal.ts[1]) = [days |-> cal.days, rem |-> cal.secs]

\* C26 witness: the last second of 1969-12-31, the timestamp -1, has been
\* converted back.
C26_Witness ==
    /\ cal.pc = "decoded"
    /\ cal.date = <<1969, 12, 31>>
    /\ cal.secs = 86399
    /\ cal.ts = Some(-1)

====
